---- MODULE Spec2Model ----
(***************************************************************************)
(* Model of the reference-extraction tool of DeepScholar                   *)
(* (Backend/app/tools/reference_extractor_tool.py) and of the code it      *)
(* calls.  Texts are TLA+ strings; the regular expressions of the source   *)
(* are kept as expression trees and run by a backtracking matcher that     *)
(* follows the priority order of Python's re module.                       *)
(***************************************************************************)
EXTENDS Integers, Sequences, FiniteSets, TLC

(***************************************************************************)
(* Strings                                                                 *)
(***************************************************************************)
Ch(s, i) == SubSeq(s, i, i)

Min(S) == CHOOSE x \in S : \A y \in S : x <= y
Max(S) == CHOOSE x \in S : \A y \in S : x >= y

Digits == {"0", "1", "2", "3", "4", "5", "6", "7", "8", "9"}
UpperStr == "ABCDEFGHIJKLMNOPQRSTUVWXYZ"
LowerStr == "abcdefghijklmnopqrstuvwxyz"
Uppers == {Ch(UpperStr, i) : i \in 1..26}
Lowers == {Ch(LowerStr, i) : i \in 1..26}
\* what \s matches and str.strip() removes
Whitespace == {" ", "\t", "\n", "\r", "\f"}

\* both letter cases of a character (re.IGNORECASE)
BothCases(c) ==
    IF c \in Uppers \cup Lowers
    THEN LET i == CHOOSE j \in 1..26 : Ch(UpperStr, j) = c \/ Ch(LowerStr, j) = c
         IN  {Ch(UpperStr, i), Ch(LowerStr, i)}
    ELSE {c}

\* str.lower()
LowerChar(c) ==
    IF c \in Uppers
    THEN Ch(LowerStr, CHOOSE j \in 1..26 : Ch(UpperStr, j) = c)
    ELSE c

\* str.strip()
Strip(s) ==
    LET keep == {i \in 1..Len(s) : Ch(s, i) \notin Whitespace}
    IN  IF keep = {} THEN "" ELSE SubSeq(s, Min(keep), Max(keep))

\* str.startswith(p), str.endswith(p)
StartsWith(s, p) == Len(s) >= Len(p) /\ SubSeq(s, 1, Len(p)) = p
EndsWith(s, p) == Len(s) >= Len(p) /\ SubSeq(s, Len(s) - Len(p) + 1, Len(s)) = p

\* str.split('\n'): the pieces between the newlines, in order
SplitLines(s) ==
    LET nl == {i \in 1..Len(s) : Ch(s, i) = "\n"}
        cut == nl \cup {0, Len(s) + 1}
    IN  [k \in 1..(Cardinality(nl) + 1) |->
            LET a == CHOOSE c \in cut : Cardinality({d \in cut : d < c}) = k - 1
                b == CHOOSE c \in cut : Cardinality({d \in cut : d < c}) = k
            IN  SubSeq(s, a + 1, b - 1)]

\* sep.join(parts)
RECURSIVE Join(_, _)
Join(parts, sep) ==
    IF parts = <<>> THEN ""
    ELSE IF Len(parts) = 1 THEN parts[1]
    ELSE parts[1] \o sep \o Join(Tail(parts), sep)

(***************************************************************************)
(* Regular expressions: the trees                                          *)
(***************************************************************************)
In(cs) == [k |-> "in", cs |-> cs]
NotIn(cs) == [k |-> "notin", cs |-> cs]
\* a literal string, ci: under re.IGNORECASE
Lit(str) == [k |-> "lit", str |-> str, ci |-> FALSE]
LitCI(str) == [k |-> "lit", str |-> str, ci |-> TRUE]
Cat(rs) == [k |-> "cat", rs |-> rs]
Alt(rs) == [k |-> "alt", rs |-> rs]
\* hi = -1 is no upper limit
Rep(r, lo, hi, greedy) == [k |-> "rep", r |-> r, lo |-> lo, hi |-> hi, greedy |-> greedy]
Plus(r) == Rep(r, 1, -1, TRUE)
Star(r) == Rep(r, 0, -1, TRUE)
Opt(r) == Rep(r, 0, 1, TRUE)
LazyPlus(r) == Rep(r, 1, -1, FALSE)
LazyStar(r) == Rep(r, 0, -1, FALSE)
Group(n, r) == [k |-> "grp", n |-> n, r |-> r]
Ahead(r) == [k |-> "ahead", r |-> r]
\* ^ and $ without re.MULTILINE, and \Z
Bos == [k |-> "bos"]
Dollar == [k |-> "dollar"]
EndZ == [k |-> "endZ"]

Digit == In(Digits)
Space == In(Whitespace)
Upper == In(Uppers)
Lower == In(Lowers)
Letter == In(Uppers \cup Lowers)
NotDot == NotIn({"."})
\* "." without and with re.DOTALL
AnyChar == NotIn({"\n"})
AnyCharDotAll == NotIn({})

(***************************************************************************)
(* Regular expressions: the matcher                                        *)
(*                                                                         *)
(* A thread is one way of matching a prefix of an expression: b is where   *)
(* the match started, e the position after the last character taken, g the *)
(* groups, and key the choices made so far, one number per choice, smaller *)
(* for the choice a backtracking matcher tries first (the earlier start,   *)
(* the earlier alternative, the longer run under a greedy repeat and the   *)
(* shorter one under a lazy repeat).  The match the re module reports is   *)
(* the complete thread whose key comes first in lexicographic order.       *)
(***************************************************************************)
\* the largest number of groups of any expression of the source
NumGroups == 3
NoGroups == [n \in 1..NumGroups |-> <<>>]

Push(t, rank) == [t EXCEPT !.key = Append(@, rank)]

CharOk(r, c) == IF r.k = "in" THEN c \in r.cs ELSE c \notin r.cs

LitOk(r, s, i) ==
    /\ i + Len(r.str) - 1 <= Len(s)
    /\ IF r.ci
       THEN \A j \in 1..Len(r.str) : Ch(s, i + j - 1) \in BothCases(Ch(r.str, j))
       ELSE SubSeq(s, i, i + Len(r.str) - 1) = r.str

\* the end of the longest run of characters r accepts from i, at most hi of them
RunEnd(r, s, i, hi) ==
    LET lim == IF hi < 0 THEN Len(s) + 1 ELSE Min({Len(s) + 1, i + hi})
        bad == {j \in i..(lim - 1) : ~CharOk(r, Ch(s, j))}
    IN  IF bad = {} THEN lim ELSE Min(bad)

\* the threads T after they have matched expression r of text s
RECURSIVE Step(_, _, _)
RECURSIVE StepCat(_, _, _, _)
RECURSIVE StepRep(_, _, _)

StepCat(rs, n, s, T) ==
    IF n > Len(rs) \/ T = {} THEN T ELSE StepCat(rs, n + 1, s, Step(rs[n], s, T))

\* no repeated expression of the source matches the empty string, so an
\* iteration always takes at least one character
StepRep(h, s, T) ==
    IF T = {} THEN {}
    ELSE LET again == IF h.greedy THEN 0 ELSE 1
             stop == IF h.lo <= 0 THEN {Push(t, 1 - again) : t \in T} ELSE {}
             more == IF h.hi = 0 THEN {}
                     ELSE Step(h.r, s, {Push(t, again) : t \in T})
         IN  stop \cup StepRep(Rep(h.r, IF h.lo > 0 THEN h.lo - 1 ELSE 0,
                                   IF h.hi < 0 THEN h.hi ELSE h.hi - 1, h.greedy),
                               s, more)

Step(r, s, T) ==
    CASE r.k \in {"in", "notin"} ->
           {[t EXCEPT !.e = @ + 1] : t \in {u \in T : u.e <= Len(s) /\ CharOk(r, Ch(s, u.e))}}
      [] r.k = "lit" ->
           {[t EXCEPT !.e = @ + Len(r.str)] : t \in {u \in T : LitOk(r, s, u.e)}}
      [] r.k = "cat" -> StepCat(r.rs, 1, s, T)
      [] r.k = "alt" ->
           UNION {Step(r.rs[n], s, {Push(t, n) : t \in T}) : n \in 1..Len(r.rs)}
      [] r.k = "rep" /\ r.r.k \in {"in", "notin"} ->
           \* a run of single characters: every length from lo to the longest run
           UNION {{[t EXCEPT !.e = j,
                             !.key = Append(@, IF r.greedy THEN Len(s) + 1 - j ELSE j)]
                   : j \in (t.e + r.lo)..RunEnd(r.r, s, t.e, r.hi)} : t \in T}
      [] r.k = "rep" /\ r.r.k \notin {"in", "notin"} -> StepRep(r, s, T)
      [] r.k = "grp" ->
           {[t EXCEPT !.g[r.n] = <<@[1], t.e>>]
            : t \in Step(r.r, s, {[u EXCEPT !.g[r.n] = <<u.e>>] : u \in T})}
      [] r.k = "ahead" -> {t \in T : Step(r.r, s, {t}) # {}}
      [] r.k = "bos" -> {t \in T : t.e = 1}
      [] r.k = "endZ" -> {t \in T : t.e = Len(s) + 1}
      [] r.k = "dollar" ->
           {t \in T : t.e = Len(s) + 1 \/ (t.e = Len(s) /\ Ch(s, t.e) = "\n")}

\* the thread of T (not empty, all alike before position n of the key)
\* whose key comes first
RECURSIVE FirstThread(_, _)
FirstThread(T, n) ==
    IF Cardinality(T) = 1 THEN CHOOSE t \in T : TRUE
    ELSE LET low == Min({t.key[n] : t \in T})
         IN  FirstThread({t \in T : t.key[n] = low}, n + 1)

NewThread(i) == [b |-> i, e |-> i, g |-> NoGroups, key |-> <<i>>]
NoMatch == [ok |-> FALSE, b |-> 0, e |-> 0, g |-> NoGroups]
AsMatch(t) == [ok |-> TRUE, b |-> t.b, e |-> t.e, g |-> t.g]

\* the complete matches of re in s that start at one of the positions
Matches(re, s, starts) == Step(re, s, {NewThread(i) : i \in starts})

\* re.match(re, s): the match at the start of s
MatchStart(re, s) ==
    LET T == Matches(re, s, {1})
    IN  IF T = {} THEN NoMatch ELSE AsMatch(FirstThread(T, 1))

\* re.search(re, s): the leftmost match
Search(re, s) ==
    LET T == Matches(re, s, 1..(Len(s) + 1))
    IN  IF T = {} THEN NoMatch ELSE AsMatch(FirstThread(T, 1))

\* match.group(n); a group that took no part (None) is given as "", which
\* every use in the source treats as it treats None (a truth test)
GroupOf(s, m, n) == IF m.g[n] = <<>> THEN "" ELSE SubSeq(s, m.g[n][1], m.g[n][2] - 1)

\* re.finditer(re, s): the non-overlapping matches from left to right
RECURSIVE NextMatches(_, _)
NextMatches(T, pos) ==
    LET later == {t \in T : t.b >= pos}
    IN  IF later = {} THEN <<>>
        ELSE LET t == FirstThread(later, 1)
             IN  <<AsMatch(t)>> \o NextMatches(T, IF t.e = t.b THEN t.b + 1 ELSE t.e)

FindIter(re, s) == NextMatches(Matches(re, s, 1..(Len(s) + 1)), 1)

(***************************************************************************)
(* ReferenceExtractorTool._extract_references_with_patterns                *)
(***************************************************************************)
\* how many of the last lines stand for the section when no heading matches
LastLines == 500

Headings ==
    Alt(<<LitCI("References"), LitCI("Bibliography"),
          LitCI("Works Cited"), LitCI("Literature Cited")>>)

\* Both expressions carry (?i), which also makes [A-Z] and [a-z] accept
\* either letter case; they are searched with re.DOTALL.
ref_section_patterns ==
    << Cat(<<Group(1, Headings), Star(Space), Plus(In({"\n"})),
             Group(2, LazyStar(AnyCharDotAll)),
             Alt(<<Lit("\n\n"),
                   Cat(<<Lit("\n"), Letter, Plus(Letter), Star(Space), Lit("\n")>>),
                   Dollar>>)>>),
       Cat(<<Group(1, Headings), Star(Space), Plus(In({"\n"})),
             Group(2, LazyStar(AnyCharDotAll)),
             Alt(<<Lit("\n\n"),
                   Cat(<<Lit("\n"), Plus(Letter), Star(Space), Lit("\n")>>),
                   Dollar>>)>>) >>

\* the index of the first section expression that matches, 0 when none does
HeadingFound(text) ==
    IF Search(ref_section_patterns[1], text).ok THEN 1
    ELSE IF Search(ref_section_patterns[2], text).ok THEN 2
    ELSE 0

\* '\n'.join(lines[-min(500, len(lines)):])
LastLinesOf(text) ==
    LET lines == SplitLines(text)
        n == IF Len(lines) < LastLines THEN Len(lines) ELSE LastLines
    IN  Join(SubSeq(lines, Len(lines) - n + 1, Len(lines)), "\n")

\* the bibliography section: group 2 of the first expression that matches,
\* and the last lines of the text when none matches or the group is empty
LocateSection(text) ==
    LET k == HeadingFound(text)
        found == IF k = 0 THEN ""
                 ELSE GroupOf(text, Search(ref_section_patterns[k], text), 2)
    IN  IF found # "" THEN found ELSE LastLinesOf(text)

\* [A-Z][a-z]+,\s*[A-Z]\.
AuthorName == Cat(<<Upper, Plus(Lower), Lit(","), Star(Space), Upper, Lit(".")>>)

EntryEnd == Ahead(Alt(<<Lit("\n\n"), Cat(<<Lit("\n"), Upper>>), EndZ>>))

\* the numbered, the Harvard and the author-leading expression
reference_patterns ==
    << Cat(<<Alt(<<Cat(<<Lit("["), Group(1, Plus(Digit)), Lit("]")>>),
                   Cat(<<Opt(Lit("(")), Group(2, Plus(Digit)), Opt(Lit(")")), Lit(".")>>)>>),
             Plus(Space),
             Group(3, Cat(<<Upper, Plus(NotDot),
                            Plus(Cat(<<Lit("."), NotIn(Digits), Plus(NotDot)>>))>>))>>),
       Cat(<<Opt(Group(1, Cat(<<AuthorName,
                                Star(Cat(<<Star(Space), Lit("and"), Star(Space),
                                           AuthorName>>))>>))),
             Star(Space), Lit("("), Group(2, Rep(Digit, 4, 4, TRUE)), Lit(")"),
             Opt(Lit(".")), Star(Space),
             Group(3, Cat(<<Plus(NotDot), Lit("."), LazyPlus(AnyChar)>>)),
             EntryEnd>>),
       Cat(<<Group(1, Cat(<<AuthorName,
                            Star(Cat(<<Alt(<<Lit(","), Lit("and"), Lit("&")>>),
                                       Star(Space), AuthorName>>))>>)),
             Star(Space),
             Group(2, Cat(<<Opt(Cat(<<Lit("("), Rep(Digit, 4, 4, TRUE), Lit(")")>>)),
                            Opt(Lit("."))>>)),
             Star(Space),
             Group(3, Cat(<<Plus(NotDot), Lit("."), LazyPlus(AnyChar)>>)),
             EntryEnd>>) >>

\* ^([^\.]+)
AuthorPattern == Cat(<<Bos, Group(1, Plus(NotDot))>>)
\* (?:19|20)\d{2}
YearPattern == Cat(<<Alt(<<Lit("19"), Lit("20")>>), Rep(Digit, 2, 2, TRUE)>>)
\* doi:?\s*(10\.\d{4,}(?:[.][0-9]+)*/[^\s\)\]]+) with re.IGNORECASE
DoiPattern ==
    Cat(<<LitCI("doi"), Opt(Lit(":")), Star(Space),
          Group(1, Cat(<<Lit("10."), Rep(Digit, 4, -1, TRUE),
                         Star(Cat(<<Lit("."), Plus(Digit)>>)), Lit("/"),
                         Plus(NotIn(Whitespace \cup {")", "]"}))>>))>>)

\* the record the loop body appends for match m of the section
MatchRecord(section, m) ==
    LET ref_num == IF GroupOf(section, m, 1) # "" THEN GroupOf(section, m, 1)
                   ELSE GroupOf(section, m, 2)
        ref_text == Strip(GroupOf(section, m, 3))
        author_match == Search(AuthorPattern, ref_text)
        year_match == Search(YearPattern, ref_text)
        doi_match == Search(DoiPattern, ref_text)
    IN  [ref_num |-> IF ref_num # "" THEN Strip(ref_num) ELSE "",
         text |-> ref_text,
         author |-> IF author_match.ok THEN Strip(GroupOf(ref_text, author_match, 1)) ELSE "",
         year |-> IF year_match.ok
                  THEN SubSeq(ref_text, year_match.b, year_match.e - 1) ELSE "",
         doi |-> IF doi_match.ok THEN GroupOf(ref_text, doi_match, 1) ELSE ""]

\* the test of the loop body: match.group(1) and match.group(3)
MatchKept(section, m) == GroupOf(section, m, 1) # "" /\ GroupOf(section, m, 3) # ""

\* the records the k-th expression contributes
MatcherRecords(k, section) ==
    LET kept == SelectSeq(FindIter(reference_patterns[k], section),
                          LAMBDA m : MatchKept(section, m))
    IN  [i \in 1..Len(kept) |-> MatchRecord(section, kept[i])]

\* the loop over reference_patterns: every expression is run and its
\* records are appended to the same list
AllMatcherRecords(section) ==
    MatcherRecords(1, section) \o MatcherRecords(2, section) \o MatcherRecords(3, section)

\* only a number in brackets or before a period starts an entry
StartsNumbered(line) ==
    MatchStart(Alt(<<Cat(<<Lit("["), Plus(Digit), Lit("]")>>),
                     Cat(<<Plus(Digit), Lit(".")>>)>>), line).ok

\* (?:\[\d+\]|\d+\.|\[|\() and [A-Z][a-z]+,\s*[A-Z]\. at the start of a line
StartsEntry(line) ==
    \/ MatchStart(Alt(<<Cat(<<Lit("["), Plus(Digit), Lit("]")>>),
                        Cat(<<Plus(Digit), Lit(".")>>), Lit("["), Lit("(")>>), line).ok
    \/ MatchStart(AuthorName, line).ok

\* a line is taken only once an entry has started
ContinueStartedEntry(current_ref, line) ==
    IF current_ref = "" THEN "" ELSE current_ref \o " " \o line

\* line 133: the line goes to the end of the current entry
ContinueEntry(current_ref, line) == current_ref \o " " \o line

\* the loop over the lines of the section, from line k on
RECURSIVE AccumulateLines(_, _, _, _)
AccumulateLines(lines, k, current_ref, references) ==
    IF k > Len(lines)
    THEN IF current_ref # "" THEN Append(references, [text |-> current_ref]) ELSE references
    ELSE LET line == Strip(lines[k])
         IN  IF line = "" THEN AccumulateLines(lines, k + 1, current_ref, references)
             ELSE IF StartsEntry(line)
             THEN AccumulateLines(lines, k + 1, line,
                      IF current_ref # "" THEN Append(references, [text |-> current_ref])
                      ELSE references)
             ELSE AccumulateLines(lines, k + 1, ContinueEntry(current_ref, line), references)

LineFallback(section) == AccumulateLines(SplitLines(section), 1, "", <<>>)

extract_references_with_patterns(text) ==
    LET ref_section == LocateSection(text)
        references == AllMatcherRecords(ref_section)
    IN  IF references = <<>> /\ ref_section # "" THEN LineFallback(ref_section)
        ELSE references

(***************************************************************************)
(* ReferenceExtractorTool._extract_references_with_grobid: the reading of  *)
(* the TEI XML the service answers with                                    *)
(***************************************************************************)
\* <open.+?>(body)</close>, the shape of the expressions of lines 185-201
Element(open, body, close) ==
    Cat(<<Lit(open), LazyPlus(AnyChar), Lit(">"), Group(1, body), Lit(close)>>)

BiblStructPattern == Cat(<<Lit("<biblStruct"), LazyPlus(AnyCharDotAll), Lit("</biblStruct>")>>)
PersNamePattern == Cat(<<Lit("<persName"), LazyPlus(AnyCharDotAll), Lit("</persName>")>>)
SurnamePattern == Cat(<<Lit("<surname>"), Group(1, LazyPlus(AnyChar)), Lit("</surname>")>>)
ForenamePattern == Element("<forename", LazyPlus(AnyChar), "</forename>")
DatePattern == Element("<date", Rep(Digit, 4, 4, TRUE), "</date>")
TitlePattern == Element("<title", LazyPlus(AnyChar), "</title>")
IdnoPattern ==
    Cat(<<Lit("<idno"), LazyPlus(AnyChar), Lit("type=\"DOI\">"),
          Group(1, LazyPlus(AnyChar)), Lit("</idno>")>>)

MatchText(s, m) == SubSeq(s, m.b, m.e - 1)

\* group 1 of the first match of re in s, "" when there is none
FirstGroup(re, s) == LET m == Search(re, s) IN IF m.ok THEN GroupOf(s, m, 1) ELSE ""

\* the names of all persons, the forename alone for a person without a
\* surname
AuthorsOfAll(ref_xml) ==
    LET persons == FindIter(PersNamePattern, ref_xml)
    IN  [i \in 1..Len(persons) |->
            LET person == MatchText(ref_xml, persons[i])
                surname == FirstGroup(SurnamePattern, person)
                forename == FirstGroup(ForenamePattern, person)
            IN  IF surname = "" THEN forename
                ELSE IF forename = "" THEN surname
                ELSE surname \o ", " \o forename]

\* the names the loop over <persName> collects, a person without a
\* surname giving none
AuthorsOf(ref_xml) ==
    LET persons == FindIter(PersNamePattern, ref_xml)
        named == SelectSeq(persons,
                     LAMBDA m : Search(SurnamePattern, MatchText(ref_xml, m)).ok)
    IN  [i \in 1..Len(named) |->
            LET person == MatchText(ref_xml, named[i])
                surname == FirstGroup(SurnamePattern, person)
                forename == Search(ForenamePattern, person)
            IN  IF forename.ok THEN surname \o ", " \o GroupOf(person, forename, 1)
                ELSE surname]

\* every part of ref_obj, empty or not
TextPartsAll(author, year, title, doi) ==
    <<author, "(" \o year \o ")", title, "DOI: " \o doi>>

\* the parts of ref_obj that are not empty, in the order they are appended
TextParts(author, year, title, doi) ==
    (IF author # "" THEN <<author>> ELSE <<>>)
    \o (IF year # "" THEN <<"(" \o year \o ")">> ELSE <<>>)
    \o (IF title # "" THEN <<title>> ELSE <<>>)
    \o (IF doi # "" THEN <<"DOI: " \o doi>> ELSE <<>>)

DigitStr == "0123456789"
RECURSIVE StrOfNat(_)
\* str(i)
StrOfNat(i) == IF i < 10 THEN Ch(DigitStr, i + 1)
               ELSE StrOfNat(i \div 10) \o Ch(DigitStr, (i % 10) + 1)

\* ref_obj of the i-th <biblStruct> element
GrobidRecord(i, ref_xml) ==
    LET author == Join(AuthorsOf(ref_xml), "; ")
        year == FirstGroup(DatePattern, ref_xml)
        title == FirstGroup(TitlePattern, ref_xml)
        doi == FirstGroup(IdnoPattern, ref_xml)
    IN  [ref_num |-> StrOfNat(i), author |-> author, year |-> year, title |-> title,
         doi |-> doi, text |-> Join(TextParts(author, year, title, doi), ". ")]

\* the references built from response.text
ParseTei(tei_content) ==
    LET ref_entries == FindIter(BiblStructPattern, tei_content)
    IN  [i \in 1..Len(ref_entries) |-> GrobidRecord(i, MatchText(tei_content, ref_entries[i]))]

(***************************************************************************)
(* The inputs and the environment                                          *)
(***************************************************************************)
\* the calls of _run a behaviour may hold
MaxCalls == 2
Calls == 1..MaxCalls

NumberedText == "[1] Smith, J. A Great Paper. 2020.\n[2] Doe, A. Another Paper. 2019."
MixedText == "[1] Smith, J. (2020). Great paper. Journal."
ProseText == "no entry here\nonly prose"

\* input_source: local paths, URLs and plain text
Sources ==
    {"paper.pdf", "paper.PDF", "http://h.org/a.pdf", "https://h.org/a.Pdf",
     "http://h.org/a.pdf?v=1", "http://[h/a.pdf?v", "http://h.org/page", NumberedText}

\* content_text: None is <<>>, a string s is <<s>>
ContentTexts == {<<>>, <<"">>, <<MixedText>>}

\* what PDFTextExtractionTool hands back as "content"
AcquiredTexts == {"", NumberedText, ProseText}

\* what the service answers with
TeiResponses ==
    {"<TEI></TEI>",
     "<TEI><biblStruct xml:id=\"b0\"><analytic><author><persName><forename type=\"first\">J</forename><surname>Smith</surname></persName></author><title level=\"a\">A Great Paper</title><idno type=\"DOI\">10.1234/abcd.5678</idno></analytic><monogr><imprint><date when=\"2020\">2020</date></imprint></monogr></biblStruct></TEI>",
     "<TEI><biblStruct xml:id=\"b0\"><monogr><title level=\"m\">T</title><imprint/></monogr></biblStruct>\n<biblStruct xml:id=\"b1\"><monogr><imprint/></monogr></biblStruct></TEI>"}

\* the local files that may exist when a behaviour starts
LocalFiles == {"paper.pdf", "paper.PDF"}

\* str.startswith(('http://', 'https://'))
IsUrl(src) == StartsWith(src, "http://") \/ StartsWith(src, "https://")

\* where the network location of a URL starts and what ends it
NetlocStart(url) == IF StartsWith(url, "http://") THEN 8 ELSE 9
NetlocEnd(url) ==
    LET stops == {i \in NetlocStart(url)..Len(url) : Ch(url, i) \in {"/", "?", "#"}}
    IN  IF stops = {} THEN Len(url) + 1 ELSE Min(stops)

\* urlparse raises ValueError when only one of "[" and "]" is in the
\* network location
UrlParseRaises(url) ==
    LET netloc == {Ch(url, i) : i \in NetlocStart(url)..(NetlocEnd(url) - 1)}
    IN  ("[" \in netloc) # ("]" \in netloc)

\* urlparse(url).path of an http(s) URL without ";": from the end of the
\* network location to the first "?" or "#"
UrlPath(url) ==
    LET from == NetlocEnd(url)
        stops == {i \in from..Len(url) : Ch(url, i) \in {"?", "#"}}
    IN  SubSeq(url, from, IF stops = {} THEN Len(url) ELSE Min(stops) - 1)

\* the test of line 308: does input_source look like a PDF
LooksLikePdf(src) ==
    EndsWith(src, ".pdf") \/ (IsUrl(src) /\ EndsWith(UrlPath(src), ".pdf"))

\* the test of line 308 raises: urlparse is reached and raises
PdfTestRaises(src) == ~EndsWith(src, ".pdf") /\ IsUrl(src) /\ UrlParseRaises(src)

\* one name for every temporary file
SharedTmpPath(n) == "/tmp/download.pdf"

\* the name tempfile.NamedTemporaryFile gives the n-th temporary file
TmpPath(n) == "/tmp/tmp" \o StrOfNat(n) \o ".pdf"

\* BaseTool.handle_error: the message _run puts under "error"
handle_error(error) == "Loi: Loi trong reference_extractor_tool: " \o error.msg

\* an except clause for the wrapped errors only
CatchesWrapped(error) == error.type = "Exception"

\* the except clause of line 344 catches every Exception
Catches(error) == TRUE

\* a count that includes one entry more than the list holds
SuccessMiscounted(references, source) ==
    [references |-> references, count |-> Len(references) + 1, source |-> source]

\* the dict of lines 338-342 and of lines 301-305
Success(references, source) ==
    [references |-> references, count |-> Len(references), source |-> source]

\* the dict of lines 346-350 and of line 328
Failure(message) == [error |-> message, references |-> <<>>, count |-> 0]

(***************************************************************************)
(* The state                                                               *)
(***************************************************************************)
VARIABLES
    use_grobid,      \* the field of the tool
    fs,              \* the files that exist: path -> "partial" or "complete"
    tmp_count,       \* how many temporary files have been created
    active,          \* the calls of _run that take part in the behaviour
    pc,              \* where each call is
    input_source,    \* the arguments of each call
    content_text,
    temp_file_path,  \* the locals of _run ("" is None)
    is_temp_file,
    file_path,
    temp_path,       \* the local of _download_pdf_if_url
    exc,             \* the exception in flight, <<>> when there is none
    result,          \* what _run returns, <<>> until it is built
    hist,            \* what each call did, for the properties
    api_result,      \* the ReferenceExtractionResult of the endpoint
    run_text,        \* the string run makes of the result, <<>> until made
    p_text,          \* the pattern parser run on its own: its input,
    p_stage,         \* how far it got,
    p_section,       \* the section it located,
    p_k,             \* the expression the loop is at,
    p_refs,          \* its records
    p_from           \* and the expression each record came from (0: none)

call_vars == <<pc, input_source, content_text, temp_file_path, is_temp_file,
               file_path, temp_path, exc, result, hist, api_result, run_text>>
parser_vars == <<p_text, p_stage, p_section, p_k, p_refs, p_from>>
vars == <<use_grobid, fs, tmp_count, active, call_vars, parser_vars>>

NoHistory ==
    [branch |-> "none", parsed |-> <<>>, downloads |-> 0, posts |-> 0, acquires |-> 0,
     created |-> {}, deleted |-> {}, failed |-> {}, unlink_failed |-> FALSE,
     propagated |-> FALSE, adapter |-> <<>>, acquired |-> <<>>]

\* the local files given: each exists and is complete
FilesOf(paths) == [f \in paths |-> "complete"]

InitCalls ==
    /\ pc = [c \in Calls |-> "idle"]
    /\ input_source = [c \in Calls |-> ""]
    /\ content_text = [c \in Calls |-> <<>>]
    /\ temp_file_path = [c \in Calls |-> ""]
    /\ is_temp_file = [c \in Calls |-> FALSE]
    /\ file_path = [c \in Calls |-> ""]
    /\ temp_path = [c \in Calls |-> ""]
    /\ exc = [c \in Calls |-> <<>>]
    /\ result = [c \in Calls |-> <<>>]
    /\ hist = [c \in Calls |-> NoHistory]
    /\ api_result = [c \in Calls |-> <<>>]
    /\ run_text = [c \in Calls |-> <<>>]

InitParserOff ==
    /\ p_text = ""
    /\ p_stage = "off"
    /\ p_section = ""
    /\ p_k = 0
    /\ p_refs = <<>>
    /\ p_from = <<>>

\* one call of _run on a tool built with either setting of use_grobid
Init ==
    /\ use_grobid \in BOOLEAN
    /\ fs \in {FilesOf({}), FilesOf(LocalFiles)}
    /\ tmp_count = 0
    /\ active = {1}
    /\ InitCalls
    /\ InitParserOff

(***************************************************************************)
(* ReferenceExtractorTool._run                                             *)
(***************************************************************************)
Truthy(opt) == opt # <<>> /\ opt[1] # ""

\* the test line 299 would make after the test of line 308
ContentTextUnlessPdf(c) == Truthy(content_text[c]) /\ ~LooksLikePdf(input_source[c])

\* the test of line 299, made before any other
UsesContentText(c) == Truthy(content_text[c])

\* the call is made: lines 292-295
Begin(c) ==
    /\ pc[c] = "idle"
    /\ \E src \in Sources, text \in ContentTexts :
          /\ input_source' = [input_source EXCEPT ![c] = src]
          /\ content_text' = [content_text EXCEPT ![c] = text]
    /\ temp_file_path' = [temp_file_path EXCEPT ![c] = ""]
    /\ is_temp_file' = [is_temp_file EXCEPT ![c] = FALSE]
    /\ pc' = [pc EXCEPT ![c] = "try"]
    /\ UNCHANGED <<use_grobid, fs, tmp_count, active, file_path, temp_path, exc,
                   result, hist, api_result, run_text, parser_vars>>

\* the steps that leave the try block with a result, by return
Return(c, value) ==
    /\ result' = [result EXCEPT ![c] = <<value>>]
    /\ pc' = [pc EXCEPT ![c] = "finally"]

\* the steps that leave it by an exception
Raise(c, type, msg) ==
    /\ exc' = [exc EXCEPT ![c] = <<[type |-> type, msg |-> msg]>>]
    /\ pc' = [pc EXCEPT ![c] = "except"]

\* lines 299-305: content_text is given
UseContentText(c) ==
    /\ pc[c] = "try"
    /\ UsesContentText(c)
    /\ Return(c, Success(extract_references_with_patterns(content_text[c][1]),
                         "text_content"))
    /\ hist' = [hist EXCEPT ![c].branch = "content_text",
                            ![c].parsed = Append(@, content_text[c][1])]
    /\ UNCHANGED <<use_grobid, fs, tmp_count, active, input_source, content_text,
                   temp_file_path, is_temp_file, file_path, temp_path, exc,
                   api_result, run_text, parser_vars>>

\* line 308 raises inside urlparse
PdfTestError(c) ==
    /\ pc[c] = "try"
    /\ ~UsesContentText(c)
    /\ PdfTestRaises(input_source[c])
    /\ Raise(c, "ValueError", "Invalid IPv6 URL")
    /\ hist' = [hist EXCEPT ![c].branch = "error", ![c].failed = @ \cup {"input"}]
    /\ UNCHANGED <<use_grobid, fs, tmp_count, active, input_source, content_text,
                   temp_file_path, is_temp_file, file_path, temp_path, result,
                   api_result, run_text, parser_vars>>

\* the tool keeps the texts it has parsed and gives no record for a text
\* another call has parsed before
ParseInputOnce(c) ==
    /\ pc[c] = "try"
    /\ ~UsesContentText(c)
    /\ ~PdfTestRaises(input_source[c])
    /\ ~LooksLikePdf(input_source[c])
    /\ Return(c, Success(IF \E d \in Calls \ {c} : hist[d].parsed = <<input_source[c]>>
                         THEN <<>>
                         ELSE extract_references_with_patterns(input_source[c]),
                         input_source[c]))
    /\ hist' = [hist EXCEPT ![c].branch = "text",
                            ![c].parsed = Append(@, input_source[c])]
    /\ UNCHANGED <<use_grobid, fs, tmp_count, active, input_source, content_text,
                   temp_file_path, is_temp_file, file_path, temp_path, exc,
                   api_result, run_text, parser_vars>>

\* lines 333-342: input_source is taken as the text
ParseInputAsText(c) ==
    /\ pc[c] = "try"
    /\ ~UsesContentText(c)
    /\ ~PdfTestRaises(input_source[c])
    /\ ~LooksLikePdf(input_source[c])
    /\ Return(c, Success(extract_references_with_patterns(input_source[c]),
                         input_source[c]))
    /\ hist' = [hist EXCEPT ![c].branch = "text",
                            ![c].parsed = Append(@, input_source[c])]
    /\ UNCHANGED <<use_grobid, fs, tmp_count, active, input_source, content_text,
                   temp_file_path, is_temp_file, file_path, temp_path, exc,
                   api_result, run_text, parser_vars>>

\* a helper that hands a local path on as a file of its own making
EnterGrobidBranchOwning(c) ==
    /\ pc[c] = "try"
    /\ ~UsesContentText(c)
    /\ ~PdfTestRaises(input_source[c])
    /\ LooksLikePdf(input_source[c])
    /\ use_grobid
    /\ IF IsUrl(input_source[c])
       THEN /\ pc' = [pc EXCEPT ![c] = "get"]
            /\ UNCHANGED <<file_path, temp_file_path, is_temp_file>>
       ELSE /\ pc' = [pc EXCEPT ![c] = "grobid"]
            /\ file_path' = [file_path EXCEPT ![c] = input_source[c]]
            /\ temp_file_path' = [temp_file_path EXCEPT ![c] = input_source[c]]
            /\ is_temp_file' = [is_temp_file EXCEPT ![c] = TRUE]
    /\ hist' = [hist EXCEPT ![c].branch = "pdf"]
    /\ UNCHANGED <<use_grobid, fs, tmp_count, active, input_source, content_text,
                   temp_path, exc, result, api_result, run_text, parser_vars>>

\* lines 313-315 with lines 249-250: the PDF branch with use_grobid; a
\* local path is handed on as it is, a URL is downloaded
EnterGrobidBranch(c) ==
    /\ pc[c] = "try"
    /\ ~UsesContentText(c)
    /\ ~PdfTestRaises(input_source[c])
    /\ LooksLikePdf(input_source[c])
    /\ use_grobid
    /\ IF IsUrl(input_source[c])
       THEN /\ pc' = [pc EXCEPT ![c] = "get"]
            /\ UNCHANGED file_path
       ELSE /\ pc' = [pc EXCEPT ![c] = "grobid"]
            /\ file_path' = [file_path EXCEPT ![c] = input_source[c]]
    /\ hist' = [hist EXCEPT ![c].branch = "pdf"]
    /\ UNCHANGED <<use_grobid, fs, tmp_count, active, input_source, content_text,
                   temp_file_path, is_temp_file, temp_path, exc, result,
                   api_result, run_text, parser_vars>>

\* lines 320-325: the PDF branch without use_grobid
EnterAcquireBranch(c) ==
    /\ pc[c] = "try"
    /\ ~UsesContentText(c)
    /\ ~PdfTestRaises(input_source[c])
    /\ LooksLikePdf(input_source[c])
    /\ ~use_grobid
    /\ pc' = [pc EXCEPT ![c] = "acquire"]
    /\ hist' = [hist EXCEPT ![c].branch = "pdf"]
    /\ UNCHANGED <<use_grobid, fs, tmp_count, active, input_source, content_text,
                   temp_file_path, is_temp_file, file_path, temp_path, exc, result,
                   api_result, run_text, parser_vars>>

(***************************************************************************)
(* ReferenceExtractorTool._download_pdf_if_url, for a URL                  *)
(***************************************************************************)
NetworkErrors == {"Connection refused", "404 Client Error"}

\* lines 257-258 and 272-274: requests.get and raise_for_status
DownloadGet(c) ==
    /\ pc[c] = "get"
    /\ \/ /\ pc' = [pc EXCEPT ![c] = "create"]
          /\ hist' = [hist EXCEPT ![c].downloads = @ + 1]
          /\ UNCHANGED exc
       \/ /\ \E msg \in NetworkErrors : Raise(c, "Exception", "Loi khi tai PDF: " \o msg)
          /\ hist' = [hist EXCEPT ![c].downloads = @ + 1, ![c].failed = @ \cup {"download"}]
    /\ UNCHANGED <<use_grobid, fs, tmp_count, active, input_source, content_text,
                   temp_file_path, is_temp_file, file_path, temp_path, result,
                   api_result, run_text, parser_vars>>

\* lines 261-262: NamedTemporaryFile(delete=False) makes an empty file
\* under a name no file has, or fails with an OSError, which line 272
\* does not catch
DownloadCreate(c) ==
    /\ pc[c] = "create"
    /\ \/ LET path == TmpPath(tmp_count + 1)
          IN  /\ fs' = [f \in DOMAIN fs \cup {path} |->
                           IF f = path THEN "partial" ELSE fs[f]]
              /\ tmp_count' = tmp_count + 1
              /\ temp_path' = [temp_path EXCEPT ![c] = path]
              /\ pc' = [pc EXCEPT ![c] = "write"]
              /\ hist' = [hist EXCEPT ![c].created = @ \cup {path}]
              /\ UNCHANGED exc
       \/ /\ Raise(c, "OSError", "No usable temporary directory found")
          /\ hist' = [hist EXCEPT ![c].failed = @ \cup {"download"}]
          /\ UNCHANGED <<fs, tmp_count, temp_path>>
    /\ UNCHANGED <<use_grobid, active, input_source, content_text, temp_file_path,
                   is_temp_file, file_path, result, api_result, run_text, parser_vars>>

\* a helper that returns (temp_path, True) while the body is still being
\* written
DownloadWriteUnfinished(c) ==
    /\ pc[c] = "write"
    /\ \/ /\ file_path' = [file_path EXCEPT ![c] = temp_path[c]]
          /\ is_temp_file' = [is_temp_file EXCEPT ![c] = TRUE]
          /\ temp_file_path' = [temp_file_path EXCEPT ![c] = temp_path[c]]
          /\ pc' = [pc EXCEPT ![c] = "grobid"]
          /\ UNCHANGED <<fs, exc, hist>>
       \/ /\ \/ Raise(c, "Exception", "Loi khi tai PDF: Connection broken")
             \/ Raise(c, "OSError", "No space left on device")
          /\ hist' = [hist EXCEPT ![c].failed = @ \cup {"download"}]
          /\ UNCHANGED <<fs, file_path, is_temp_file, temp_file_path>>
    /\ UNCHANGED <<use_grobid, tmp_count, active, input_source, content_text,
                   temp_path, result, api_result, run_text, parser_vars>>

\* lines 265-270: the body is written chunk by chunk and (temp_path, True)
\* is returned to lines 314-315; the stream may break (a RequestException,
\* wrapped by line 274) and the write may fail (an OSError)
DownloadWrite(c) ==
    /\ pc[c] = "write"
    /\ \/ /\ fs' = [fs EXCEPT ![temp_path[c]] = "complete"]
          /\ file_path' = [file_path EXCEPT ![c] = temp_path[c]]
          /\ is_temp_file' = [is_temp_file EXCEPT ![c] = TRUE]
          /\ temp_file_path' = [temp_file_path EXCEPT ![c] = temp_path[c]]
          /\ pc' = [pc EXCEPT ![c] = "grobid"]
          /\ UNCHANGED <<exc, hist>>
       \/ /\ \/ Raise(c, "Exception", "Loi khi tai PDF: Connection broken")
             \/ Raise(c, "OSError", "No space left on device")
          /\ hist' = [hist EXCEPT ![c].failed = @ \cup {"download"}]
          /\ UNCHANGED <<fs, file_path, is_temp_file, temp_file_path>>
    /\ UNCHANGED <<use_grobid, tmp_count, active, input_source, content_text,
                   temp_path, result, api_result, run_text, parser_vars>>

(***************************************************************************)
(* ReferenceExtractorTool._extract_references_with_grobid                  *)
(***************************************************************************)
\* lines 155-166: the file must exist; it is opened and posted
GrobidOpen(c) ==
    /\ pc[c] = "grobid"
    /\ IF file_path[c] \in DOMAIN fs
       THEN /\ pc' = [pc EXCEPT ![c] = "post"]
            /\ hist' = [hist EXCEPT ![c].posts = @ + 1]
            /\ UNCHANGED exc
       ELSE /\ Raise(c, "Exception",
                     "Loi khi trich xuat tai lieu tham khao voi GROBID: Khong tim thay file PDF: "
                     \o file_path[c])
            /\ hist' = [hist EXCEPT ![c].failed = @ \cup {"file"}]
    /\ UNCHANGED <<use_grobid, fs, tmp_count, active, input_source, content_text,
                   temp_file_path, is_temp_file, file_path, temp_path, result,
                   api_result, run_text, parser_vars>>

\* the adapter gives an empty list when the request fails
ReturnNothingOnFailure(c, msg) ==
    /\ Return(c, Success(<<>>, input_source[c]))
    /\ UNCHANGED exc

\* the adapter posts the file again when the request fails
RetryOnFailure(c, msg) ==
    /\ pc' = [pc EXCEPT ![c] = "grobid"]
    /\ UNCHANGED <<exc, result>>

\* lines 229-231: the adapter raises when the request fails or is
\* answered non-2xx
OnServiceFailure(c, msg) ==
    /\ Raise(c, "Exception", "Loi GROBID API: " \o msg)
    /\ UNCHANGED result

\* lines 171-227 applied to response.text, for each answer of the service
ReferencesOfTei == [tei \in TeiResponses |-> ParseTei(tei)]

\* lines 163-231: the service answers with TEI XML, which is read and
\* returned to lines 337-342, or the request fails or is answered non-2xx
GrobidAnswer(c) ==
    /\ pc[c] = "post"
    /\ \/ \E tei \in TeiResponses :
             /\ Return(c, Success(ReferencesOfTei[tei], input_source[c]))
             /\ hist' = [hist EXCEPT ![c].adapter = <<ReferencesOfTei[tei]>>]
             /\ UNCHANGED exc
       \/ /\ \E msg \in NetworkErrors : OnServiceFailure(c, msg)
          /\ hist' = [hist EXCEPT ![c].failed = @ \cup {"grobid"}]
    /\ UNCHANGED <<use_grobid, fs, tmp_count, active, input_source, content_text,
                   temp_file_path, is_temp_file, file_path, temp_path,
                   api_result, run_text, parser_vars>>

(***************************************************************************)
(* The PDF branch without use_grobid: PDFTextExtractionTool._run is called *)
(***************************************************************************)
AcquirerErrors == {"Khong the tai PDF", "Loi: Loi trong pdf_extraction_tool: cannot open"}

\* the text would be the "source" of the tool's result
SourceOf(pdf_result) == pdf_result.source

\* line 331: the text is the "content" of the tool's result
ContentOf(pdf_result) == pdf_result.content

\* lines 324-331: the tool returns an error, returns content, or raises;
\* a local path that does not exist gives the error of its line 236
Acquire(c) ==
    /\ pc[c] = "acquire"
    /\ \/ /\ IF ~IsUrl(input_source[c]) /\ Strip(input_source[c]) \notin DOMAIN fs
             THEN Return(c, Failure("Khong tim thay file: " \o Strip(input_source[c])))
             ELSE \E msg \in (IF IsUrl(input_source[c]) THEN AcquirerErrors
                              ELSE AcquirerErrors \ {"Khong the tai PDF"}) :
                     Return(c, Failure(msg))
          /\ hist' = [hist EXCEPT ![c].acquires = @ + 1, ![c].failed = @ \cup {"acquirer"}]
          /\ UNCHANGED exc
       \/ /\ IsUrl(input_source[c]) \/ Strip(input_source[c]) \in DOMAIN fs
          /\ \E text \in AcquiredTexts :
                /\ Return(c, Success(extract_references_with_patterns(
                                         ContentOf([content |-> text,
                                                    source |-> Strip(input_source[c])])),
                                     input_source[c]))
                /\ hist' = [hist EXCEPT ![c].acquires = @ + 1,
                                        ![c].acquired = <<text>>,
                                        ![c].parsed = Append(@, text)]
          /\ UNCHANGED exc
       \/ /\ IsUrl(input_source[c])
          /\ Raise(c, "OSError", "No space left on device")
          /\ hist' = [hist EXCEPT ![c].acquires = @ + 1, ![c].failed = @ \cup {"acquirer"}]
          /\ UNCHANGED result
    /\ UNCHANGED <<use_grobid, fs, tmp_count, active, input_source, content_text,
                   temp_file_path, is_temp_file, file_path, temp_path,
                   api_result, run_text, parser_vars>>

(***************************************************************************)
(* The except and the finally clause of _run                               *)
(***************************************************************************)
\* lines 344-350
Except(c) ==
    /\ pc[c] = "except"
    /\ IF Catches(exc[c][1])
       THEN /\ Return(c, Failure(handle_error(exc[c][1])))
            /\ UNCHANGED hist
       ELSE /\ pc' = [pc EXCEPT ![c] = "finally"]
            /\ hist' = [hist EXCEPT ![c].propagated = TRUE]
            /\ UNCHANGED result
    /\ exc' = [exc EXCEPT ![c] = <<>>]
    /\ UNCHANGED <<use_grobid, fs, tmp_count, active, input_source, content_text,
                   temp_file_path, is_temp_file, file_path, temp_path,
                   api_result, run_text, parser_vars>>

\* the test of line 354
MustUnlink(c) ==
    is_temp_file[c] /\ temp_file_path[c] # "" /\ temp_file_path[c] \in DOMAIN fs

\* the failure of os.unlink becomes the result of the call
UnlinkFailureReturned(c) ==
    /\ hist' = [hist EXCEPT ![c].unlink_failed = TRUE]
    /\ result' = [result EXCEPT ![c] =
                     <<Failure(handle_error([type |-> "OSError", msg |-> "Permission denied"]))>>]
    /\ UNCHANGED fs

\* lines 357-358: the failure of os.unlink is caught and logged
UnlinkFailureLogged(c) ==
    /\ hist' = [hist EXCEPT ![c].unlink_failed = TRUE]
    /\ UNCHANGED <<fs, result>>

\* lines 352-358: the file is removed, or os.unlink fails and the failure
\* is logged; then the call returns
Finally(c) ==
    /\ pc[c] = "finally"
    /\ IF MustUnlink(c)
       THEN \/ /\ fs' = [f \in DOMAIN fs \ {temp_file_path[c]} |-> fs[f]]
               /\ hist' = [hist EXCEPT ![c].deleted = @ \cup {temp_file_path[c]}]
               /\ UNCHANGED result
            \/ UnlinkFailureLogged(c)
       ELSE UNCHANGED <<fs, hist, result>>
    /\ pc' = [pc EXCEPT ![c] = "returned"]
    /\ UNCHANGED <<use_grobid, tmp_count, active, input_source, content_text,
                   temp_file_path, is_temp_file, file_path, temp_path, exc,
                   api_result, run_text, parser_vars>>

(***************************************************************************)
(* The API endpoints: paper_analysis.py                                    *)
(***************************************************************************)
\* dict.get: <<>> is None, a value v is <<v>>
Get(d, key) == IF key \in DOMAIN d THEN <<d[key]>> ELSE <<>>

\* sub in s
Contains(s, sub) ==
    \E i \in 1..(Len(s) - Len(sub) + 1) : SubSeq(s, i, i + Len(sub) - 1) = sub

\* s.lower().count(sub) > 0, for sub in lower case
ContainsLowered(s, sub) ==
    \E i \in 1..(Len(s) - Len(sub) + 1) :
       \A j \in 1..Len(sub) : LowerChar(Ch(s, i + j - 1)) = Ch(sub, j)

\* s.lower().endswith(suffix), for suffix in lower case
EndsWithLowered(s, suffix) ==
    /\ Len(s) >= Len(suffix)
    /\ \A j \in 1..Len(suffix) : LowerChar(Ch(s, Len(s) - Len(suffix) + j)) = Ch(suffix, j)

\* what RetrieverAgent.run may hand back: "error" and "references" are
\* optional keys; an entry of "references" is a dict or something else,
\* and the text of a dict may be a string or a value Reference rejects
AgentResults ==
    {[output |-> "", error |-> "agent stopped"],
     [output |-> ""],
     [output |-> "References found:\n[1] Smith, J. A Great Paper. 2020.\n[2] short\nno bracket in this line\n  [3] Doe, A. Another Paper. 2019.  "],
     [output |-> "Found:\n[1] Smith, J. A Great Paper. 2020."],
     [output |-> "done", references |-> <<>>],
     [output |-> "done",
      references |-> <<[dict |-> TRUE, valid |-> TRUE,
                        d |-> [ref_num |-> "1", text |-> "Smith, J. A Great Paper. 2020", year |-> "2020"]],
                       [dict |-> FALSE],
                       [dict |-> TRUE, valid |-> TRUE, d |-> [author |-> "Doe, A"]]>>],
     [output |-> "done",
      references |-> <<[dict |-> TRUE, valid |-> FALSE, d |-> [ref_num |-> "1"]]>>]}

\* the url the endpoint is asked about
RequestUrls == {"http://h.org/a.pdf", "http://h.org/A.PDF", "http://h.org/page", "no url"}

\* pydantic's HttpUrl: an http(s) scheme and a host
ValidHttpUrl(url) == IsUrl(url) /\ NetlocEnd(url) > NetlocStart(url)

\* lines 186-190: PaperSource(url=url) with its source_type
PaperSource(url) ==
    [url |-> url, source_type |-> IF EndsWithLowered(url, ".pdf") THEN "PDF" ELSE "HTML"]

\* lines 219-226 and 115-122: Reference(...) from a dict
ReferenceOfDict(d) ==
    [ref_num |-> Get(d, "ref_num"),
     text |-> IF "text" \in DOMAIN d THEN d.text ELSE "",
     author |-> Get(d, "author"), year |-> Get(d, "year"),
     title |-> Get(d, "title"), doi |-> Get(d, "doi")]

\* lines 233 and 134: Reference(text=line.strip())
ReferenceOfLine(line) ==
    [ref_num |-> <<>>, text |-> Strip(line), author |-> <<>>, year |-> <<>>,
     title |-> <<>>, doi |-> <<>>]

\* the test of lines 232 and 133
LineKept(line) == Contains(line, "[") /\ Contains(line, "]") /\ Len(line) > 10

\* lines 214-226: the dicts of the list, in order
RECURSIVE ReferencesOfList(_)
ReferencesOfList(raw) ==
    IF raw = <<>> THEN <<>>
    ELSE (IF Head(raw).dict THEN <<ReferenceOfDict(Head(raw).d)>> ELSE <<>>)
         \o ReferencesOfList(Tail(raw))

\* lines 230-233: the kept lines of the output, in order
RECURSIVE ReferencesOfLines(_)
ReferencesOfLines(lines) ==
    IF lines = <<>> THEN <<>>
    ELSE (IF LineKept(Head(lines)) THEN <<ReferenceOfLine(Head(lines))>> ELSE <<>>)
         \o ReferencesOfLines(Tail(lines))

\* Reference(...) raises a ValidationError for some entry of the list
ListRaises(raw) == \E i \in 1..Len(raw) : raw[i].dict /\ ~raw[i].valid

\* the result of lines 203-208 and of lines 247-252
ErrorResult(url, message) ==
    [references |-> <<>>, count |-> 0, source |-> PaperSource(url), error |-> <<message>>]

\* the result of lines 236-240 and 137-141
ListResult(url, references_list) ==
    [references |-> references_list, count |-> Len(references_list),
     source |-> PaperSource(url), error |-> <<>>]

\* extract_references, lines 182-252: the results it builds, none when
\* PaperSource raises in the try block and again at line 250
extract_references(url, agent) ==
    IF ~ValidHttpUrl(url) THEN <<>>
    ELSE IF "error" \in DOMAIN agent /\ agent.error # ""
    THEN <<ErrorResult(url, "Loi tu Retriever Agent: " \o agent.error)>>
    ELSE IF "references" \in DOMAIN agent
    THEN IF ListRaises(agent.references)
         THEN <<[ErrorResult(url, "1 validation error for Reference")
                 EXCEPT !.source = [url |-> url, source_type |-> ""]]>>
         ELSE <<ListResult(url, ReferencesOfList(agent.references))>>
    ELSE IF agent.output # ""
    THEN <<ListResult(url, ReferencesOfLines(SplitLines(agent.output)))>>
    ELSE <<ListResult(url, <<>>)>>

\* retrieve_paper_content, lines 47-166, for a request that asks for the
\* references: the ReferenceExtractionResult it builds, none when line 61
\* or a Reference raises and when the agent gave neither key
retrieve_paper_content(url, agent) ==
    IF "error" \in DOMAIN agent /\ agent.error # "" THEN <<>>
    ELSE IF "references" \in DOMAIN agent
    THEN IF ListRaises(agent.references) THEN <<>>
         ELSE <<ListResult(url, ReferencesOfList(agent.references))>>
    ELSE IF agent.output # ""
    THEN IF ContainsLowered(agent.output, "reference") \/ ContainsLowered(agent.output, "citation")
         THEN <<ListResult(url, ReferencesOfLines(SplitLines(agent.output)))>>
         ELSE <<ListResult(url, <<>>)>>
    ELSE <<>>

\* extract_references answers a request
ExtractEndpoint(c) ==
    /\ pc[c] = "returned"
    /\ \E url \in RequestUrls, agent \in AgentResults :
          api_result' = [api_result EXCEPT ![c] = extract_references(url, agent)]
    /\ pc' = [pc EXCEPT ![c] = "responded"]
    /\ UNCHANGED <<use_grobid, fs, tmp_count, active, input_source, content_text,
                   temp_file_path, is_temp_file, file_path, temp_path, exc, result,
                   hist, run_text, parser_vars>>

\* retrieve_paper_content answers a request, whose url FastAPI validated
RetrieveEndpoint(c) ==
    /\ pc[c] = "returned"
    /\ \E url \in {u \in RequestUrls : ValidHttpUrl(u)}, agent \in AgentResults :
          api_result' = [api_result EXCEPT ![c] = retrieve_paper_content(url, agent)]
    /\ pc' = [pc EXCEPT ![c] = "responded"]
    /\ UNCHANGED <<use_grobid, fs, tmp_count, active, input_source, content_text,
                   temp_file_path, is_temp_file, file_path, temp_path, exc, result,
                   hist, run_text, parser_vars>>

(***************************************************************************)
(* ReferenceExtractorTool.run: the result of _run as a string              *)
(***************************************************************************)
\* an empty list reported as an error
RunEmptyIsError(res) ==
    "Loi khi trich xuat tai lieu tham khao: " \o
       (IF "error" \in DOMAIN res THEN res.error ELSE "")

\* lines 390-411: the line of the i-th reference
FormatReference(i, ref) ==
    LET ref_num == IF "ref_num" \in DOMAIN ref THEN ref.ref_num ELSE StrOfNat(i)
        Field(key) == IF key \in DOMAIN ref THEN ref[key] ELSE ""
        parts == (IF Field("author") # "" THEN <<Field("author")>> ELSE <<>>)
                 \o (IF Field("year") # "" THEN <<"(" \o Field("year") \o ")">> ELSE <<>>)
                 \o (IF Field("title") # "" THEN <<Field("title")>> ELSE <<>>)
                 \o (IF Field("doi") # "" THEN <<"DOI: " \o Field("doi")>> ELSE <<>>)
    IN  IF DOMAIN ref \cap {"author", "year", "title", "doi"} # {}
        THEN "[" \o ref_num \o "] " \o Join(parts, " ")
        ELSE "[" \o ref_num \o "] " \o Field("text")

NoneFound == "Khong tim thay tai lieu tham khao trong tai lieu."

\* lines 377-421
run(res) ==
    IF "error" \in DOMAIN res /\ res.error # ""
    THEN "Loi khi trich xuat tai lieu tham khao: " \o res.error
    ELSE IF res.count = 0 THEN NoneFound
    ELSE "Da trich xuat " \o StrOfNat(res.count) \o " tai lieu tham khao tu tai lieu:\n\n"
         \o Join([i \in 1..Len(res.references) |->
                     FormatReference(i, res.references[i])], "\n\n")

\* run hands the string to its caller
RunReturns(c) ==
    /\ pc[c] = "returned"
    /\ result[c] # <<>>
    /\ run_text' = [run_text EXCEPT ![c] = <<run(result[c][1])>>]
    /\ pc' = [pc EXCEPT ![c] = "formatted"]
    /\ UNCHANGED <<use_grobid, fs, tmp_count, active, input_source, content_text,
                   temp_file_path, is_temp_file, file_path, temp_path, exc, result,
                   hist, api_result, parser_vars>>

(***************************************************************************)
(* The specification of _run and of the endpoints                          *)
(***************************************************************************)
Next ==
    \/ \E c \in active : Begin(c)
    \/ \E c \in active : UseContentText(c)
    \/ \E c \in active : PdfTestError(c)
    \/ \E c \in active : ParseInputAsText(c)
    \/ \E c \in active : EnterGrobidBranch(c)
    \/ \E c \in active : EnterAcquireBranch(c)
    \/ \E c \in active : DownloadGet(c)
    \/ \E c \in active : DownloadCreate(c)
    \/ \E c \in active : DownloadWrite(c)
    \/ \E c \in active : GrobidOpen(c)
    \/ \E c \in active : GrobidAnswer(c)
    \/ \E c \in active : Acquire(c)
    \/ \E c \in active : Except(c)
    \/ \E c \in active : Finally(c)
    \/ \E c \in active : ExtractEndpoint(c)
    \/ \E c \in active : RetrieveEndpoint(c)
    \/ \E c \in active : RunReturns(c)

Spec == Init /\ [][Next]_vars

(***************************************************************************)
(* Calls of _run on one tool, interleaved: use_grobid is set and each call *)
(* is given a remote PDF                                                   *)
(***************************************************************************)
ConcSources == {"http://h.org/a.pdf", "https://h.org/b.pdf"}

InitConc ==
    /\ use_grobid = TRUE
    /\ fs = FilesOf({})
    /\ tmp_count = 0
    /\ active = Calls
    /\ InitCalls
    /\ InitParserOff

\* the call is made: lines 292-295
BeginConcurrent(c) ==
    /\ pc[c] = "idle"
    /\ \E src \in ConcSources : input_source' = [input_source EXCEPT ![c] = src]
    /\ temp_file_path' = [temp_file_path EXCEPT ![c] = ""]
    /\ is_temp_file' = [is_temp_file EXCEPT ![c] = FALSE]
    /\ pc' = [pc EXCEPT ![c] = "try"]
    /\ UNCHANGED <<use_grobid, fs, tmp_count, active, content_text, file_path, temp_path,
                   exc, result, hist, api_result, run_text, parser_vars>>

NextConc ==
    \/ \E c \in active : BeginConcurrent(c)
    \/ \E c \in active : EnterGrobidBranch(c)
    \/ \E c \in active : DownloadGet(c)
    \/ \E c \in active : DownloadCreate(c)
    \/ \E c \in active : DownloadWrite(c)
    \/ \E c \in active : GrobidOpen(c)
    \/ \E c \in active : GrobidAnswer(c)
    \/ \E c \in active : Except(c)
    \/ \E c \in active : Finally(c)

SpecConc == InitConc /\ [][NextConc]_vars

(***************************************************************************)
(* Calls of _run on one tool, interleaved, each given a plain text as      *)
(* input_source, with or without content_text                              *)
(***************************************************************************)
TextSources == {NumberedText, ProseText}
TextContents == {<<>>, <<NumberedText>>}

InitText ==
    /\ use_grobid \in BOOLEAN
    /\ fs = FilesOf({})
    /\ tmp_count = 0
    /\ active = Calls
    /\ InitCalls
    /\ InitParserOff

\* the call is made: lines 292-295
BeginText(c) ==
    /\ pc[c] = "idle"
    /\ \E src \in TextSources, text \in TextContents :
          /\ input_source' = [input_source EXCEPT ![c] = src]
          /\ content_text' = [content_text EXCEPT ![c] = text]
    /\ temp_file_path' = [temp_file_path EXCEPT ![c] = ""]
    /\ is_temp_file' = [is_temp_file EXCEPT ![c] = FALSE]
    /\ pc' = [pc EXCEPT ![c] = "try"]
    /\ UNCHANGED <<use_grobid, fs, tmp_count, active, file_path, temp_path, exc,
                   result, hist, api_result, run_text, parser_vars>>

NextText ==
    \/ \E c \in active : BeginText(c)
    \/ \E c \in active : UseContentText(c)
    \/ \E c \in active : ParseInputAsText(c)
    \/ \E c \in active : Finally(c)

SpecText == InitText /\ [][NextText]_vars

(***************************************************************************)
(* PDFTextExtractionTool._run (pdf_parser_tool.py), one call               *)
(***************************************************************************)
\* the three grave accents of line 211, a character that strings of TLA+
\* cannot hold: three apostrophes stand for them
Fence == "'''"

\* input_path: URLs and local paths, as they are and as an agent may
\* format them
PdfInputs ==
    {"http://h.org/a.pdf", " https://h.org/page\n", "http://h.org/b.pdf\n" \o Fence,
     "paper.pdf", "missing.pdf"}

\* the Content-Type header of the response
ContentTypes == {"Application/PDF", "text/HTML"}

\* str.lower
ToLower(s) == Join([i \in 1..Len(s) |-> LowerChar(Ch(s, i))], "")

\* what the extraction methods raise
ExtractErrors == {"cannot open broken document"}

\* lines 208-212: strip, and what stands before the first fence when the
\* path ends with one
CleanPath(input_path) ==
    LET stripped == Strip(input_path)
        ticks == {i \in 1..(Len(stripped) - 2) : SubSeq(stripped, i, i + 2) = Fence}
    IN  IF EndsWith(stripped, Fence) THEN Strip(SubSeq(stripped, 1, Min(ticks) - 1))
        ELSE stripped

\* BaseTool.handle_error as PDFTextExtractionTool calls it
PdfHandleError(msg) == "Loi: Loi trong pdf_extraction_tool: " \o msg

\* a return statement inside the try block of lines 219-265
PdfReturn(c, value) ==
    /\ result' = [result EXCEPT ![c] = <<value>>]
    /\ pc' = [pc EXCEPT ![c] = "pdf_finally"]

\* an exception no clause of _run or _download_pdf catches
PdfRaise(c, type, msg) ==
    /\ exc' = [exc EXCEPT ![c] = <<[type |-> type, msg |-> msg]>>]
    /\ pc' = [pc EXCEPT ![c] = "pdf_finally"]

\* lines 197-219: the call is made and the path is cleaned
PdfBegin(c) ==
    /\ pc[c] = "idle"
    /\ \E src \in PdfInputs : input_source' = [input_source EXCEPT ![c] = CleanPath(src)]
    /\ temp_file_path' = [temp_file_path EXCEPT ![c] = ""]
    /\ is_temp_file' = [is_temp_file EXCEPT ![c] = FALSE]
    /\ pc' = [pc EXCEPT ![c] = "pdf_try"]
    /\ UNCHANGED <<use_grobid, fs, tmp_count, active, content_text, file_path, temp_path,
                   exc, result, hist, api_result, run_text, parser_vars>>

\* lines 221-225 with lines 65-71 and 85-86: requests.get and
\* raise_for_status, whose failure _download_pdf returns as an error, and
\* the test of the Content-Type in lower case
PdfDownloadGet(c) ==
    /\ pc[c] = "pdf_try"
    /\ IsUrl(input_source[c])
    /\ \/ \E header \in ContentTypes :
           LET content_type == ToLower(header) IN
             IF Contains(content_type, "application/pdf")
                \/ EndsWithLowered(input_source[c], ".pdf")
             THEN /\ pc' = [pc EXCEPT ![c] = "pdf_create"]
                  /\ hist' = [hist EXCEPT ![c].downloads = @ + 1]
                  /\ UNCHANGED result
             ELSE /\ PdfReturn(c, [error |-> "URL khong tro den tai lieu PDF. Content-Type: "
                                              \o content_type,
                                   content |-> "", url |-> input_source[c]])
                  /\ hist' = [hist EXCEPT ![c].downloads = @ + 1,
                                          ![c].failed = @ \cup {"download"}]
       \/ \E msg \in NetworkErrors :
             /\ PdfReturn(c, [error |-> "Loi khi tai PDF: " \o msg, content |-> "",
                              url |-> input_source[c]])
             /\ hist' = [hist EXCEPT ![c].downloads = @ + 1,
                                     ![c].failed = @ \cup {"download"}]
    /\ UNCHANGED <<use_grobid, fs, tmp_count, active, input_source, content_text,
                   temp_file_path, is_temp_file, file_path, temp_path, exc,
                   api_result, run_text, parser_vars>>

\* lines 74-75: NamedTemporaryFile(delete=False, suffix='.pdf') makes an
\* empty file, or fails with an OSError, which line 85 does not catch
PdfDownloadCreate(c) ==
    /\ pc[c] = "pdf_create"
    /\ \/ LET path == TmpPath(tmp_count + 1)
          IN  /\ fs' = [f \in DOMAIN fs \cup {path} |->
                           IF f = path THEN "partial" ELSE fs[f]]
              /\ tmp_count' = tmp_count + 1
              /\ temp_path' = [temp_path EXCEPT ![c] = path]
              /\ pc' = [pc EXCEPT ![c] = "pdf_write"]
              /\ hist' = [hist EXCEPT ![c].created = @ \cup {path}]
              /\ UNCHANGED exc
       \/ /\ PdfRaise(c, "OSError", "No usable temporary directory found")
          /\ hist' = [hist EXCEPT ![c].failed = @ \cup {"download"}, ![c].propagated = TRUE]
          /\ UNCHANGED <<fs, tmp_count, temp_path>>
    /\ UNCHANGED <<use_grobid, active, input_source, content_text, temp_file_path,
                   is_temp_file, file_path, result, api_result, run_text, parser_vars>>

\* lines 78-83 and 230-231: the body is written chunk by chunk and
\* temp_path is returned to _run; lines 85-86 and 224-225: the stream
\* breaks, _download_pdf returns (None, error) and _run returns the error,
\* never having learnt the path; or the write fails with an OSError
PdfDownloadWrite(c) ==
    /\ pc[c] = "pdf_write"
    /\ \/ /\ fs' = [fs EXCEPT ![temp_path[c]] = "complete"]
          /\ file_path' = [file_path EXCEPT ![c] = temp_path[c]]
          /\ is_temp_file' = [is_temp_file EXCEPT ![c] = TRUE]
          /\ temp_file_path' = [temp_file_path EXCEPT ![c] = temp_path[c]]
          /\ pc' = [pc EXCEPT ![c] = "pdf_extract"]
          /\ UNCHANGED <<exc, result, hist>>
       \/ /\ PdfReturn(c, [error |-> "Loi khi tai PDF: Connection broken", content |-> "",
                            url |-> input_source[c]])
          /\ hist' = [hist EXCEPT ![c].failed = @ \cup {"download"}]
          /\ UNCHANGED <<fs, file_path, is_temp_file, temp_file_path, exc>>
       \/ /\ PdfRaise(c, "OSError", "No space left on device")
          /\ hist' = [hist EXCEPT ![c].failed = @ \cup {"download"}, ![c].propagated = TRUE]
          /\ UNCHANGED <<fs, file_path, is_temp_file, temp_file_path, result>>
    /\ UNCHANGED <<use_grobid, tmp_count, active, input_source, content_text,
                   temp_path, api_result, run_text, parser_vars>>

\* lines 233-238: a local path must exist
PdfLocalFile(c) ==
    /\ pc[c] = "pdf_try"
    /\ ~IsUrl(input_source[c])
    /\ IF input_source[c] \in DOMAIN fs
       THEN /\ file_path' = [file_path EXCEPT ![c] = input_source[c]]
            /\ pc' = [pc EXCEPT ![c] = "pdf_extract"]
            /\ UNCHANGED <<result, hist>>
       ELSE /\ PdfReturn(c, [error |-> "Khong tim thay file: " \o input_source[c],
                             content |-> ""])
            /\ hist' = [hist EXCEPT ![c].failed = @ \cup {"file"}]
            /\ UNCHANGED file_path
    /\ UNCHANGED <<use_grobid, fs, tmp_count, active, input_source, content_text,
                   temp_file_path, is_temp_file, temp_path, exc,
                   api_result, run_text, parser_vars>>

\* lines 241-265: the text is extracted and returned with its source, or
\* the extraction raises and line 263 turns the exception into an error
PdfExtract(c) ==
    /\ pc[c] = "pdf_extract"
    /\ \/ \E text \in AcquiredTexts :
             /\ PdfReturn(c, [content |-> text, metadata |-> "metadata",
                              source |-> input_source[c]])
             /\ hist' = [hist EXCEPT ![c].acquired = <<text>>]
       \/ \E msg \in ExtractErrors :
             /\ PdfReturn(c, [error |-> PdfHandleError(msg), content |-> "",
                              source |-> input_source[c]])
             /\ hist' = [hist EXCEPT ![c].failed = @ \cup {"extract"}]
    /\ UNCHANGED <<use_grobid, fs, tmp_count, active, input_source, content_text,
                   temp_file_path, is_temp_file, file_path, temp_path, exc,
                   api_result, run_text, parser_vars>>

\* lines 267-273: the file _run knows of is removed, or os.unlink fails
\* and the failure is logged; then the call returns, or the exception
\* that was on its way leaves _run
PdfFinally(c) ==
    /\ pc[c] = "pdf_finally"
    /\ IF is_temp_file[c] /\ temp_file_path[c] # "" /\ temp_file_path[c] \in DOMAIN fs
       THEN \/ /\ fs' = [f \in DOMAIN fs \ {temp_file_path[c]} |-> fs[f]]
               /\ hist' = [hist EXCEPT ![c].deleted = @ \cup {temp_file_path[c]}]
            \/ /\ hist' = [hist EXCEPT ![c].unlink_failed = TRUE]
               /\ UNCHANGED fs
       ELSE UNCHANGED <<fs, hist>>
    /\ pc' = [pc EXCEPT ![c] = IF exc[c] # <<>> THEN "raised" ELSE "returned"]
    /\ UNCHANGED <<use_grobid, tmp_count, active, input_source, content_text,
                   temp_file_path, is_temp_file, file_path, temp_path, exc, result,
                   api_result, run_text, parser_vars>>

InitPdf ==
    /\ use_grobid = FALSE
    /\ fs \in {FilesOf({}), FilesOf(LocalFiles)}
    /\ tmp_count = 0
    /\ active = {1}
    /\ InitCalls
    /\ InitParserOff

NextPdf ==
    \/ \E c \in active : PdfBegin(c)
    \/ \E c \in active : PdfDownloadGet(c)
    \/ \E c \in active : PdfDownloadCreate(c)
    \/ \E c \in active : PdfDownloadWrite(c)
    \/ \E c \in active : PdfLocalFile(c)
    \/ \E c \in active : PdfExtract(c)
    \/ \E c \in active : PdfFinally(c)

SpecPdf == InitPdf /\ [][NextPdf]_vars

(***************************************************************************)
(* The pattern parser on its own, one step of lines 44-139 at a time       *)
(***************************************************************************)
\* the longest input, in lines
MaxLines == 3

\* the lines an input is made of
LineKinds ==
    {"[1] Smith, J. A Great Paper. 2020.",
     "[2] Doe, A. Another Paper. 2019.",
     "Smith, J. (2020). Great paper. Journal.",
     "References",
     "only prose",
     ""}

ParserTexts ==
    {Join(lines, "\n") : lines \in UNION {[1..n -> LineKinds] : n \in 1..MaxLines}}

\* single entries that hold the DOI 10.1234/abcd.5678: after "doi:", after
\* "DOI: " and bare
DoiText == "10.1234/abcd.5678"
DoiEntries ==
    {"[1] Smith, J. A Great Paper. doi:10.1234/abcd.5678",
     "Smith, J. (2020). Great paper. Journal. DOI: 10.1234/abcd.5678",
     "Smith, J. Great paper. doi:10.1234/abcd.5678",
     "Smith, J. (2020). Great paper. 10.1234/abcd.5678"}

\* documents with a "References" heading line, three entries on the lines
\* after it, a blank line and prose
ThreeEntries ==
    {<<"[1] Smith, J. A Great Paper. 2020.", "[2] Doe, A. Another Paper. 2019.",
       "[3] Roe, B. Third Paper. 2018.">>,
     <<"Smith, J. (2020). Great paper. Journal.", "Doe, A. (2019). Other paper. Journal.",
       "Roe, B. (2018). Third paper. Journal.">>}
TextsBefore == {"", "A Survey\n\n", "We list the references\nbelow.\n"}
TextsAfter == {"Appendix text.", "Appendix\nMore text."}
WithHeading(before, entries, after) ==
    before \o "References\n" \o Join(entries, "\n") \o "\n\n" \o after
SectionTexts ==
    {WithHeading(b, e, a) : b \in TextsBefore, e \in ThreeEntries, a \in TextsAfter}

\* documents no expression matches, with lines that start an entry and
\* lines that do not
FallbackTexts ==
    {"preface line\n[a] first item\n  continued\n\n(b) second item\nlast line",
     "[a] first item\n\n\nmore of it",
     "see also\n12. item twelve",
     "intro\n12. item\n  more\n[x\nSmith, J. tail"}

\* single entries numbered "N." and "(N).", a Harvard entry without an
\* author, and entries with digits that are no year
PlainNumbered == "1. Smith, J. A Great Paper. 2020."
ParenNumbered == "(2). Doe, A. Another Paper. 2019."
HarvardNoAuthor == "(2020). Great paper. Journal."
LongNumber == "[1] Smith, J. Paper 120201. Journal."
StyleEntries == {PlainNumbered, ParenNumbered, HarvardNoAuthor, LongNumber}

\* the inputs of the parser
ParserInputs ==
    ParserTexts \cup DoiEntries \cup SectionTexts \cup FallbackTexts \cup StyleEntries

InitParser ==
    /\ use_grobid = FALSE
    /\ fs = FilesOf({})
    /\ tmp_count = 0
    /\ active = {}
    /\ InitCalls
    /\ p_text \in ParserInputs
    /\ p_stage = "start"
    /\ p_section = ""
    /\ p_k = 0
    /\ p_refs = <<>>
    /\ p_from = <<>>

\* lines 55-74: the section is located
ParserLocate ==
    /\ p_stage = "start"
    /\ p_section' = LocateSection(p_text)
    /\ p_k' = 1
    /\ p_stage' = "matching"
    /\ UNCHANGED <<use_grobid, fs, tmp_count, active, call_vars, p_text, p_refs, p_from>>

\* lines 89-113: one turn of the loop over reference_patterns
ParserMatch ==
    /\ p_stage = "matching"
    /\ LET found == MatcherRecords(p_k, p_section)
       IN  /\ p_refs' = p_refs \o found
           /\ p_from' = p_from \o [i \in 1..Len(found) |-> p_k]
    /\ p_k' = p_k + 1
    /\ p_stage' = IF p_k = Len(reference_patterns) THEN "matched" ELSE "matching"
    /\ UNCHANGED <<use_grobid, fs, tmp_count, active, call_vars, p_text, p_section>>

\* lines 116-137: no record, so the lines are accumulated
ParserFallback ==
    /\ p_stage = "matched"
    /\ p_refs = <<>> /\ p_section # ""
    /\ p_refs' = LineFallback(p_section)
    /\ p_from' = [i \in 1..Len(LineFallback(p_section)) |-> 0]
    /\ p_stage' = "done"
    /\ UNCHANGED <<use_grobid, fs, tmp_count, active, call_vars, p_text, p_section, p_k>>

\* line 139 without the accumulation of lines
ParserReturn ==
    /\ p_stage = "matched"
    /\ p_refs # <<>> \/ p_section = ""
    /\ p_stage' = "done"
    /\ UNCHANGED <<use_grobid, fs, tmp_count, active, call_vars, p_text, p_section, p_k,
                   p_refs, p_from>>

NextParser == ParserLocate \/ ParserMatch \/ ParserFallback \/ ParserReturn

SpecParser == InitParser /\ [][NextParser]_vars

(***************************************************************************)
(* The reading of the service's answer on its own, one <biblStruct>        *)
(* element of lines 175-227 at a time.  The answers are laid out as the    *)
(* service lays them out, one element per line.                            *)
(***************************************************************************)
\* the most <biblStruct> elements an answer holds
MaxEntries == 2

\* what stands inside a <biblStruct> element, with the fields it holds:
\* every field (two persons, the second without forename; two titles; a
\* date that is no year before one that is; an arXiv identifier before the
\* DOI), no field, a person without surname, fields that are there but
\* hold no value the expressions take, and a year and a DOI only
EntryKinds ==
    {[xml |-> "<author><persName><forename type=\"first\">J</forename><surname>Smith</surname></persName></author>\n"
              \o "<author><persName><surname>Doe</surname></persName></author>\n"
              \o "<title level=\"a\">A Paper</title>\n<title level=\"j\">Journal</title>\n"
              \o "<date when=\"2019-05\">May 2019</date>\n<date when=\"2020\">2020</date>\n"
              \o "<idno type=\"arXiv\">arXiv:1</idno>\n<idno type=\"DOI\">10.1234/ab</idno>",
      author |-> "Smith, J; Doe", year |-> "2020", title |-> "A Paper", doi |-> "10.1234/ab"],
     [xml |-> "<monogr>\n<title/>\n<imprint/>\n</monogr>",
      author |-> "", year |-> "", title |-> "", doi |-> ""],
     [xml |-> "<author><persName><forename type=\"first\">K</forename></persName></author>\n"
              \o "<title level=\"m\">T</title>",
      author |-> "", year |-> "", title |-> "T", doi |-> ""],
     [xml |-> "<author><persName><surname>Roe</surname></persName></author>\n"
              \o "<date type=\"published\" when=\"2018\"/>\n<date when=\"2018-05\">2018-05</date>\n"
              \o "<idno type=\"ISSN\">1234</idno>\n<idno type=\"DOI\"></idno>",
      author |-> "Roe", year |-> "", title |-> "", doi |-> ""],
     [xml |-> "<date when=\"2017\">2017</date>\n<idno type=\"DOI\">10.5/x</idno>",
      author |-> "", year |-> "2017", title |-> "", doi |-> "10.5/x"]}

KindSeqs == UNION {[1..n -> EntryKinds] : n \in 0..MaxEntries}

\* the answer that holds the entries ks, numbered b0, b1, ... by the service
TeiOf ==
    [ks \in KindSeqs |->
        "<TEI>\n<listBibl>\n"
        \o Join([i \in 1..Len(ks) |->
                    "<biblStruct xml:id=\"b" \o StrOfNat(i - 1) \o "\">\n" \o ks[i].xml
                    \o "\n</biblStruct>"], "\n")
        \o "\n</listBibl>\n</TEI>"]

TeiInputs == {TeiOf[ks] : ks \in KindSeqs}

InitAdapter ==
    /\ use_grobid = TRUE
    /\ fs = FilesOf({})
    /\ tmp_count = 0
    /\ active = {}
    /\ InitCalls
    /\ p_text \in TeiInputs
    /\ p_stage = "tei"
    /\ p_section = ""
    /\ p_k = 0
    /\ p_refs = <<>>
    /\ p_from = <<>>

\* line 175: the <biblStruct> elements of tei_content are found; p_from
\* holds their texts
AdapterFind ==
    /\ p_stage = "tei"
    /\ LET ref_entries == FindIter(BiblStructPattern, p_text)
       IN  p_from' = [i \in 1..Len(ref_entries) |-> MatchText(p_text, ref_entries[i])]
    /\ p_k' = 1
    /\ p_stage' = "entries"
    /\ UNCHANGED <<use_grobid, fs, tmp_count, active, call_vars, p_text, p_section, p_refs>>

\* lines 177-225: one turn of the loop over the elements
AdapterRecord ==
    /\ p_stage = "entries"
    /\ p_k <= Len(p_from)
    /\ p_refs' = Append(p_refs, GrobidRecord(p_k, p_from[p_k]))
    /\ p_k' = p_k + 1
    /\ UNCHANGED <<use_grobid, fs, tmp_count, active, call_vars, p_text, p_stage,
                   p_section, p_from>>

\* line 227: the list is returned
AdapterReturn ==
    /\ p_stage = "entries"
    /\ p_k > Len(p_from)
    /\ p_stage' = "adapted"
    /\ UNCHANGED <<use_grobid, fs, tmp_count, active, call_vars, p_text, p_section, p_k,
                   p_refs, p_from>>

NextAdapter == AdapterFind \/ AdapterRecord \/ AdapterReturn

SpecAdapter == InitAdapter /\ [][NextAdapter]_vars

(***************************************************************************)
(* The properties                                                          *)
(***************************************************************************)
\* the call has left _run
Returned(c) == pc[c] \in {"returned", "responded", "formatted"}

\* the dict carries the key "error"
HasError(r) == "error" \in DOMAIN r

\* C1: every result _run returns, on every return path, and every
\* ReferenceExtractionResult an endpoint builds, has count equal to the
\* length of its references list.
C1_CountIsLength ==
    \A c \in Calls :
       /\ result[c] # <<>> => result[c][1].count = Len(result[c][1].references)
       /\ api_result[c] # <<>> =>
             api_result[c][1].count = Len(api_result[c][1].references)

\* a call returned two references and an endpoint built a result of two
C1_Witness ==
    \E c \in Calls :
       /\ pc[c] = "responded"
       /\ result[c] # <<>> /\ result[c][1].count = 2
       /\ api_result[c] # <<>> /\ api_result[c][1].count = 2

\* C2: _run never raises: no exception leaves it, every call that
\* returns has a result, a call in which the download, the service, the
\* text acquirer or the reading of the input failed returns references
\* empty, count 0 and a non-empty error, and a result with an error never
\* carries references.
C2_NeverRaises ==
    \A c \in Calls :
       /\ ~hist[c].propagated
       /\ Returned(c) => result[c] # <<>>
       /\ (Returned(c) /\ hist[c].failed # {}) =>
             /\ HasError(result[c][1])
             /\ result[c][1].error # ""
             /\ result[c][1].references = <<>>
             /\ result[c][1].count = 0
       /\ (result[c] # <<>> /\ HasError(result[c][1])) => result[c][1].references = <<>>

\* a download broke with an error that line 272 does not wrap, and the
\* call returned the error result
C2_Witness ==
    \E c \in Calls :
       /\ Returned(c)
       /\ "download" \in hist[c].failed
       /\ hist[c].created # {}
       /\ HasError(result[c][1])
       /\ result[c][1].error = handle_error([type |-> "OSError", msg |-> "No space left on device"])

\* C3: with use_grobid and a remote PDF URL, every temporary file the
\* call created no longer exists when the call returns, on every exit
\* path (a deletion the system refuses is left aside).
C3_TempFilesRemoved ==
    \A c \in Calls :
       (Returned(c) /\ use_grobid /\ IsUrl(input_source[c]) /\ ~hist[c].unlink_failed)
          => hist[c].created \cap DOMAIN fs = {}

\* C4: every reference of every result of _run has a non-empty text.
C4_TextNonEmpty ==
    \A c \in Calls :
       result[c] # <<>> =>
          \A i \in 1..Len(result[c][1].references) : result[c][1].references[i].text # ""

\* C5: a call given a non-empty content_text returns the pattern parser's
\* records of content_text with source "text_content", whatever
\* input_source is, and downloads nothing, posts nothing to the service
\* and does not call the text acquirer.
C5_ContentTextOnly ==
    \A c \in Calls :
       (pc[c] \in {"finally", "returned", "responded"}
           /\ content_text[c] # <<>> /\ content_text[c][1] # "")
          => /\ result[c] # <<>>
             /\ ~HasError(result[c][1])
             /\ result[c][1].references = extract_references_with_patterns(content_text[c][1])
             /\ result[c][1].source = "text_content"
             /\ hist[c].parsed = <<content_text[c][1]>>
             /\ hist[c].downloads = 0 /\ hist[c].posts = 0 /\ hist[c].acquires = 0
             /\ hist[c].created = {}

\* content_text came with a PDF URL and its three records were returned
C5_Witness ==
    \E c \in Calls :
       /\ Returned(c)
       /\ content_text[c] = <<MixedText>>
       /\ input_source[c] = "http://h.org/a.pdf"
       /\ result[c][1].count = 3
       /\ result[c][1].source = "text_content"

\* the path suffix of input_source is .pdf in some letter case
HasPdfSuffix(src) ==
    IF IsUrl(src) /\ ~UrlParseRaises(src) THEN EndsWithLowered(UrlPath(src), ".pdf")
    ELSE EndsWithLowered(src, ".pdf")

\* C6: without content_text, an input_source whose path suffix is .pdf in
\* any letter case takes the PDF branch and is never handed to the
\* pattern parser; any other input_source is parsed as plain text, with
\* no download, no request, no text acquisition and no file made.
C6_PdfSuffixAnyCase ==
    \A c \in Calls :
       (Returned(c) /\ ~(content_text[c] # <<>> /\ content_text[c][1] # ""))
          => IF HasPdfSuffix(input_source[c])
             THEN /\ hist[c].branch = "pdf"
                  /\ \A i \in 1..Len(hist[c].parsed) : hist[c].parsed[i] # input_source[c]
             ELSE /\ hist[c].branch = "text"
                  /\ hist[c].parsed = <<input_source[c]>>
                  /\ hist[c].downloads = 0 /\ hist[c].posts = 0 /\ hist[c].acquires = 0
                  /\ hist[c].created = {}

\* C7: in the PDF branch, with use_grobid the text acquirer is not called
\* and the references returned are the adapter's; without it the text
\* acquirer is called, nothing is posted to the service, _run downloads
\* nothing and makes no temporary file, and the references returned are
\* the pattern parser's records of the acquired text.
C7_PdfBranch ==
    \A c \in Calls :
       (Returned(c) /\ hist[c].branch = "pdf")
          => IF use_grobid
             THEN /\ hist[c].acquires = 0
                  /\ ~HasError(result[c][1]) =>
                        /\ hist[c].adapter # <<>>
                        /\ result[c][1].references = hist[c].adapter[1]
                        /\ hist[c].parsed = <<>>
             ELSE /\ hist[c].acquires = 1
                  /\ hist[c].posts = 0 /\ hist[c].downloads = 0 /\ hist[c].created = {}
                  /\ hist[c].adapter = <<>>
                  /\ ~HasError(result[c][1]) =>
                        /\ hist[c].acquired # <<>>
                        /\ result[c][1].references =
                              extract_references_with_patterns(hist[c].acquired[1])

\* without use_grobid the acquired text was the numbered one and its two
\* records were returned
C7_Witness ==
    \E c \in Calls :
       /\ Returned(c)
       /\ hist[c].branch = "pdf"
       /\ ~use_grobid
       /\ hist[c].acquired = <<NumberedText>>
       /\ Len(result[c][1].references) = 2

\* C8: when the request to the service fails or is answered non-2xx, the
\* adapter returns no list, and _run returns the error result without
\* running the pattern parser or the text acquirer.
C8_NoFallback ==
    \A c \in Calls :
       (Returned(c) /\ "grobid" \in hist[c].failed)
          => /\ hist[c].adapter = <<>>
             /\ HasError(result[c][1])
             /\ result[c][1].error # ""
             /\ result[c][1].references = <<>>
             /\ result[c][1].count = 0
             /\ hist[c].parsed = <<>>
             /\ hist[c].acquires = 0

\* the service failed after a download, and the call returned the error
C8_Witness ==
    \E c \in Calls :
       /\ Returned(c)
       /\ hist[c].failed = {"grobid"}
       /\ hist[c].posts = 1
       /\ hist[c].downloads = 1
       /\ HasError(result[c][1])

\* C9: the records the pattern parser returns all come from one
\* expression: once an expression gave a record, no later one adds any.
C9_OneMatcher ==
    p_stage = "done" => \A i, j \in 1..Len(p_from) : p_from[i] = p_from[j]

\* the input is n >= 1 lines, the i-th starting with "[i] "
IsNumberedList(text) ==
    LET lines == SplitLines(text)
    IN  \A i \in 1..Len(lines) : StartsWith(lines[i], "[" \o StrOfNat(i) \o "] ")

\* C10: the parser gives the two-line numbered input exactly 2 records,
\* with ref_num "1" and "2" and year "2020" and "2019", and gives a list
\* of n bracketed entries on consecutive lines n records, the i-th
\* numbered i.
C10_NumberedEntries ==
    p_stage = "done" =>
       /\ p_text = NumberedText =>
             /\ Len(p_refs) = 2
             /\ p_refs[1].ref_num = "1" /\ p_refs[2].ref_num = "2"
             /\ p_refs[1].year = "2020" /\ p_refs[2].year = "2019"
       /\ IsNumberedList(p_text) =>
             /\ Len(p_refs) = Len(SplitLines(p_text))
             /\ \A i \in 1..Len(p_refs) : p_refs[i].ref_num = StrOfNat(i)

\* C11: every record a matcher makes of an entry that holds the DOI
\* 10.1234/abcd.5678, written after "doi:" in any letter case or bare,
\* has that DOI as its doi field, whichever expression matched.
C11_DoiExtracted ==
    (p_stage = "done" /\ p_text \in DoiEntries) =>
       \A i \in 1..Len(p_refs) : p_from[i] # 0 => p_refs[i].doi = DoiText

\* C12: for a document with a "References" heading line, three entries on
\* the lines after it, a blank line and prose, the section located is
\* those three entries: nothing of the text before the heading and
\* nothing of the prose.
C12_SectionIsEntries ==
    p_stage \in {"matching", "matched", "done"} =>
       \A b \in TextsBefore, e \in ThreeEntries, a \in TextsAfter :
          p_text = WithHeading(b, e, a) => p_section = Join(e, "\n")

\* the lines of the section that are not blank, stripped
NonBlankLines(section) ==
    LET lines == SplitLines(section)
        stripped == [i \in 1..Len(lines) |-> Strip(lines[i])]
    IN  SelectSeq(stripped, LAMBDA line : line # "")

\* the accumulation of lines made the records
FallbackRan == p_stage = "done" /\ \A i \in 1..Len(p_from) : p_from[i] = 0

\* C13: when the accumulation of lines makes the records, the texts of
\* the records, one after the other, are the non-blank lines of the
\* section, stripped, in source order: every line is in exactly one
\* record, also a line that comes before the first line starting an entry.
C13_FallbackKeepsLines ==
    FallbackRan =>
       Join([i \in 1..Len(p_refs) |-> Strip(p_refs[i].text)], " ")
          = Join(NonBlankLines(p_section), " ")

\* three records were made of five non-blank lines, the first of a line that comes
\* before any line starting an entry
C13_Witness ==
    /\ FallbackRan
    /\ Len(p_refs) = 3
    /\ Len(NonBlankLines(p_section)) = 5
    /\ Strip(p_refs[1].text) = "preface line"

\* C14: every result _run returns, success or error, has a source:
\* "text_content" when content_text was used, input_source otherwise.
C14_SourceInEveryResult ==
    \A c \in Calls :
       result[c] # <<>> =>
          /\ "source" \in DOMAIN result[c][1]
          /\ result[c][1].source =
                IF hist[c].branch = "content_text" THEN "text_content" ELSE input_source[c]

\* C15: in every reference _run returns, a field other than text that is
\* not known is absent: none of ref_num, author, year, title and doi is
\* there as the empty string.
C15_UnknownIsAbsent ==
    \A c \in Calls :
       result[c] # <<>> =>
          \A i \in 1..Len(result[c][1].references) :
             \A f \in DOMAIN result[c][1].references[i] \ {"text"} :
                result[c][1].references[i][f] # ""

\* C16: a call in which nothing failed returns no error; when it found
\* no reference it returns references empty and count 0, and run then
\* gives the "none found" sentence, which is no error message.
C16_EmptyIsNoError ==
    \A c \in Calls :
       (Returned(c) /\ hist[c].failed = {}) =>
          /\ ~HasError(result[c][1])
          /\ result[c][1].references = <<>> =>
                /\ result[c][1].count = 0
                /\ pc[c] = "formatted" => run_text[c] = <<NoneFound>>

\* the service answered with TEI that holds no entry, and run gave the
\* "none found" sentence
C16_Witness ==
    \E c \in Calls :
       /\ pc[c] = "formatted"
       /\ hist[c].adapter = <<<<>>>>
       /\ hist[c].failed = {}
       /\ result[c][1].references = <<>>
       /\ run_text[c] = <<NoneFound>>

\* C17: the step that ends _run, whether the deletion of the temporary
\* file succeeds or fails, leaves the result as it was and lets no
\* exception out: the call returns the references, count and error it
\* had before the deletion was tried.
C17_UnlinkFailureOnlyLogged ==
    [][\A c \in Calls :
          (pc[c] = "finally" /\ pc'[c] = "returned") =>
             /\ result'[c] = result[c]
             /\ result[c] # <<>>
             /\ ~hist'[c].propagated]_vars

\* the deletion failed after the service answered with one entry: the
\* file is still there and the call returned the entry
C17_Witness ==
    \E c \in Calls :
       /\ pc[c] = "returned"
       /\ hist[c].unlink_failed
       /\ temp_file_path[c] \in DOMAIN fs
       /\ ~HasError(result[c][1])
       /\ result[c][1].count = 1

\* C18: when calls of _run are interleaved, no two calls make the same
\* temporary file, a call deletes only files it made itself, the file a
\* call downloaded is there as long as its request to the service is being
\* prepared or is in progress, and a call that was given a PDF returns
\* what its own download and its own request gave: the adapter's records
\* when neither failed, the error result otherwise.
C18_CallsDoNotInterfere ==
    \A c \in Calls :
       /\ \A d \in Calls \ {c} : hist[c].created \cap hist[d].created = {}
       /\ hist[c].deleted \subseteq hist[c].created
       /\ (pc[c] \in {"grobid", "post"} /\ is_temp_file[c]) => temp_file_path[c] \in DOMAIN fs
       /\ "file" \notin hist[c].failed
       /\ (Returned(c) /\ hist[c].branch = "pdf") =>
             IF hist[c].failed = {}
             THEN /\ hist[c].adapter # <<>>
                  /\ result[c][1] = Success(hist[c].adapter[1], input_source[c])
             ELSE /\ HasError(result[c][1])
                  /\ result[c][1].references = <<>>
                  /\ hist[c].failed \in {{"download"}, {"grobid"}}

\* two calls have each downloaded a file of their own and both requests
\* to the service are in progress
C18_Witness ==
    \E c, d \in Calls :
       /\ c # d
       /\ pc[c] = "post" /\ pc[d] = "post"
       /\ temp_file_path[c] # temp_file_path[d]
       /\ {temp_file_path[c], temp_file_path[d]} \subseteq DOMAIN fs

\* C19: within one call of _run the download request is issued at most
\* once and the request to the service is issued at most once; once either
\* has failed the call is on its way to the error result (the handler of
\* line 344, the cleanup, the return) and the result it holds from then on
\* is the error result with no references; after a failed download the
\* service is never asked.
C19_NoRetry ==
    \A c \in Calls :
       /\ hist[c].downloads <= 1
       /\ hist[c].posts <= 1
       /\ "download" \in hist[c].failed => hist[c].posts = 0
       /\ hist[c].failed \cap {"download", "grobid"} # {} =>
             /\ pc[c] \in {"except", "finally"} \/ Returned(c)
             /\ pc[c] # "except" =>
                   /\ HasError(result[c][1])
                   /\ result[c][1].references = <<>>
                   /\ result[c][1].count = 0

\* one call returned the error of a download that failed at its only
\* request, another the error of the service, which it asked once after
\* its only download
C19_Witness ==
    \E c, d \in Calls :
       /\ pc[c] = "returned" /\ pc[d] = "returned"
       /\ hist[c].failed = {"download"} /\ hist[c].downloads = 1 /\ hist[c].posts = 0
       /\ hist[d].failed = {"grobid"} /\ hist[d].downloads = 1 /\ hist[d].posts = 1
       /\ HasError(result[c][1]) /\ HasError(result[d][1])

\* what lines 44-139 make of each text a call may be given
RecordsOfText == [t \in TextSources |-> extract_references_with_patterns(t)]

\* the call parsed a text (input_source or content_text) and holds its result
ParsedText(c) ==
    /\ pc[c] \in {"finally", "returned"}
    /\ hist[c].branch \in {"text", "content_text"}

FollowingText(text) ==
    GroupOf(text, Search(ref_section_patterns[HeadingFound(text)], text), 2)

\* C21: the section is the last min(500, line count) lines of the document
\* (the whole document when it has fewer than 500 lines) exactly when no
\* heading matches; whenever a heading matches, the section is the text
\* that follows the first matching heading and the last lines are not used.
C21_LastLinesIffNoHeading ==
    p_stage \in {"matching", "matched", "done"} =>
       IF HeadingFound(p_text) = 0
       THEN /\ p_section = LastLinesOf(p_text)
            /\ Len(SplitLines(p_text)) < LastLines => p_section = p_text
       ELSE p_section = FollowingText(p_text)

\* the records of the result that the k-th expression made
RecordsFrom(k) == {i \in 1..Len(p_from) : p_from[i] = k}

\* C22: every match of an expression is one record of the result, none is
\* dropped: the entry numbered "N." and the entry numbered "(N)." each
\* give a record of the numbered expression with ref_num N and the body as
\* text, and the Harvard entry with a year in parentheses and no author
\* gives a record of the Harvard expression.
C22_EveryMatchARecord ==
    p_stage = "done" =>
       /\ \A k \in 1..Len(reference_patterns) :
             Cardinality(RecordsFrom(k)) = Len(FindIter(reference_patterns[k], p_section))
       /\ p_text = PlainNumbered =>
             \E i \in RecordsFrom(1) :
                p_refs[i].ref_num = "1" /\ StartsWith(p_refs[i].text, "Smith, J. A Great Paper")
       /\ p_text = ParenNumbered =>
             \E i \in RecordsFrom(1) :
                p_refs[i].ref_num = "2" /\ StartsWith(p_refs[i].text, "Doe, A. Another Paper")
       /\ p_text = HarvardNoAuthor =>
             \E i \in RecordsFrom(2) : StartsWith(p_refs[i].text, "Great paper.")

\* an ordinal as it appears in a source: digits, bare as in "12" or in
\* brackets or parentheses as in "[3]"
IsOrdinal(s) ==
    LET inner == IF Len(s) >= 2 /\ <<Ch(s, 1), Ch(s, Len(s))>> \in {<<"[", "]">>, <<"(", ")">>}
                 THEN SubSeq(s, 2, Len(s) - 1) ELSE s
    IN  inner # "" /\ \A i \in 1..Len(inner) : Ch(inner, i) \in Digits

\* C23: the ref_num of every record the pattern parser returns is absent
\* (or empty) or the ordinal of the entry; in the records of the Harvard
\* and of the author-leading expression it never is the author group or
\* any other text that is no ordinal.
C23_RefNumIsOrdinal ==
    p_stage = "done" =>
       \A i \in 1..Len(p_refs) :
          "ref_num" \in DOMAIN p_refs[i] =>
             p_refs[i].ref_num = "" \/ IsOrdinal(p_refs[i].ref_num)

\* where a number of four digits, 19xx or 20xx, stands on its own in s
StandaloneYears(s) ==
    {i \in 1..(Len(s) - 3) :
        /\ SubSeq(s, i, i + 1) \in {"19", "20"}
        /\ Ch(s, i + 2) \in Digits /\ Ch(s, i + 3) \in Digits
        /\ i = 1 \/ Ch(s, i - 1) \notin Digits
        /\ i + 4 > Len(s) \/ Ch(s, i + 4) \notin Digits}
FirstYear(s) ==
    IF StandaloneYears(s) = {} THEN ""
    ELSE SubSeq(s, Min(StandaloneYears(s)), Min(StandaloneYears(s)) + 3)

HarvardEntry == "Smith, J. (2020). Great paper. Journal."

\* C24: the year of every record a matcher makes of an entry is the first
\* number 19xx or 20xx standing on its own anywhere in the entry (checked
\* for the inputs that are one entry on one line), so the Harvard entry
\* "Smith, J. (2020). Great paper. Journal." gets year "2020" and digits
\* inside a longer number give no year; the author of that Harvard entry
\* is its leading clause before the first period, "Smith, J".
C24_YearAndAuthor ==
    p_stage = "done" =>
       \A i \in 1..Len(p_refs) :
          p_from[i] # 0 =>
             /\ Len(SplitLines(p_text)) = 1 => p_refs[i].year = FirstYear(p_text)
             /\ p_text = HarvardEntry =>
                   p_refs[i].year = "2020" /\ p_refs[i].author = "Smith, J"

\* the entries the answer was made of
KindsOf(tei) == CHOOSE ks \in KindSeqs : TeiOf[ks] = tei

\* the parts that are not empty
NonEmptyParts(parts) == SelectSeq(parts, LAMBDA part : part # "")

\* C25: the adapter returns one record for each <biblStruct> element, in
\* the order of the answer, the i-th with ref_num i written in decimal;
\* author is the "Surname, Forename" of the persons joined with "; ", year
\* the first date of four digits, title the first title, doi the first
\* identifier of type DOI; text is the parts among author, "(year)",
\* title and "DOI: doi" that are not empty, joined with ". ".
C25_OneRecordPerEntry ==
    /\ p_stage \in {"entries", "adapted"} =>
          /\ Len(p_from) = Len(KindsOf(p_text))
          /\ Len(p_refs) = p_k - 1
          /\ \A i \in 1..Len(p_refs) :
                LET kind == KindsOf(p_text)[i]
                    ref == p_refs[i]
                IN  /\ ref.ref_num = StrOfNat(i)
                    /\ ref.author = kind.author
                    /\ ref.year = kind.year
                    /\ ref.title = kind.title
                    /\ ref.doi = kind.doi
                    /\ ref.text =
                          Join(NonEmptyParts(<<ref.author,
                                               IF ref.year = "" THEN "" ELSE "(" \o ref.year \o ")",
                                               ref.title,
                                               IF ref.doi = "" THEN "" ELSE "DOI: " \o ref.doi>>),
                               ". ")
    /\ p_stage = "adapted" => Len(p_refs) = Len(KindsOf(p_text))

\* the answer held the entry with every field and then the entry with a
\* year and a DOI only; both records were returned
C25_Witness ==
    /\ p_stage = "adapted"
    /\ Len(p_refs) = 2
    /\ p_refs[1].text = "Smith, J; Doe. (2020). A Paper. DOI: 10.1234/ab"
    /\ p_refs[2].ref_num = "2"
    /\ p_refs[2].text = "(2017). DOI: 10.5/x"

\* the record an entry gives when it is the only one of an answer
RecordAlone == [kind \in EntryKinds |-> ParseTei(TeiOf[<<kind>>])[1]]

\* C26: an entry with missing or malformed fields does not make the
\* adapter fail: each entry gives a record with all six keys, a field the
\* entry does not hold is "" in it, an entry whose persons have no surname
\* has no author, and every entry's record is, but for its number, the
\* record the entry gives alone, whatever entries stand before and after
\* it; the list returned holds a record for every entry.
C26_MissingFieldsNoFailure ==
    /\ p_stage \in {"entries", "adapted"} =>
          \A i \in 1..Len(p_refs) :
             LET kind == KindsOf(p_text)[i]
                 ref == p_refs[i]
             IN  /\ DOMAIN ref = {"ref_num", "author", "year", "title", "doi", "text"}
                 /\ \A f \in {"author", "year", "title", "doi"} : kind[f] = "" => ref[f] = ""
                 /\ ~Contains(kind.xml, "<surname>") => ref.author = ""
                 /\ [ref EXCEPT !.ref_num = "1"] = RecordAlone[kind]
    /\ p_stage = "adapted" =>
          \A i \in 1..Len(KindsOf(p_text)) : i <= Len(p_refs) /\ p_refs[i].ref_num = StrOfNat(i)

\* the first entry held a person without a surname, the second every
\* field: the first record has no author and the second is complete
C26_Witness ==
    /\ p_stage = "adapted"
    /\ Len(p_refs) = 2
    /\ Contains(p_from[1], "<forename type=\"first\">K</forename>")
    /\ p_refs[1].author = "" /\ p_refs[1].text = "T"
    /\ p_refs[2].author = "Smith, J; Doe" /\ p_refs[2].ref_num = "2"

\* the line begins with digits and a period
BeginsWithNumber(line) ==
    \E n \in 1..(Len(line) - 1) :
       /\ \A i \in 1..n : Ch(line, i) \in Digits
       /\ Ch(line, n + 1) = "."

\* the line begins like "Author, I.": a capital, small letters, a comma,
\* maybe blanks, a capital and a period
BeginsWithAuthor(line) ==
    \E n \in 2..(Len(line) - 3) :
       \E m \in (n + 2)..(Len(line) - 1) :
          /\ Ch(line, 1) \in Uppers
          /\ \A i \in 2..n : Ch(line, i) \in Lowers
          /\ Ch(line, n + 1) = ","
          /\ \A j \in (n + 2)..(m - 1) : Ch(line, j) \in Whitespace
          /\ Ch(line, m) \in Uppers
          /\ Ch(line, m + 1) = "."

\* the line begins an entry: "[digit]", "digit.", a bracket, a parenthesis
\* or "Author, I."
BeginsEntry(line) ==
    \/ Ch(line, 1) \in {"[", "("}
    \/ BeginsWithNumber(line)
    \/ BeginsWithAuthor(line)

\* C27: the records are made by the accumulation of lines if and only if
\* the three expressions gave no record (for an empty section both give
\* the empty list).  The accumulation starts an entry at each non-blank
\* line that begins an entry and at the first non-blank line, every other
\* non-blank line goes to the end of the entry before it, and each entry is
\* one record that has the key "text" and no other.
C27_LineAccumulation ==
    p_stage = "done" =>
       IF AllMatcherRecords(p_section) # <<>>
       THEN p_refs # <<>> /\ \A i \in 1..Len(p_refs) : p_from[i] # 0
       ELSE LET lines == NonBlankLines(p_section)
                starts == {k \in 1..Len(lines) : k = 1 \/ BeginsEntry(lines[k])}
                EntryOf(k) ==
                    LET later == {j \in starts : j > k}
                        last == IF later = {} THEN Len(lines) ELSE Min(later) - 1
                    IN  Join(SubSeq(lines, k, last), " ")
            IN  /\ Len(p_refs) = Cardinality(starts)
                /\ \A i \in 1..Len(p_refs) :
                      /\ p_from[i] = 0
                      /\ DOMAIN p_refs[i] = {"text"}
                      /\ \E k \in starts :
                            /\ Cardinality({j \in starts : j < k}) = i - 1
                            /\ Strip(p_refs[i].text) = EntryOf(k)

\* no expression matched the five lines; the accumulation made four
\* records, starting one at "12. item", at "[x" and at "Smith, J. tail"
C27_Witness ==
    /\ p_stage = "done"
    /\ AllMatcherRecords(p_section) = <<>>
    /\ Len(p_refs) = 4
    /\ p_refs[2] = [text |-> "12. item more"]
    /\ p_refs[3] = [text |-> "[x"]
    /\ p_refs[4] = [text |-> "Smith, J. tail"]

\* C28: when PDFTextExtractionTool._run, given a URL, has ended, every
\* temporary file the call created is gone, whichever way it ended
\* (extraction success, extraction failure, download failure after the
\* file was created), and it has ended by returning a result, an error
\* result on failure, never by raising
C28_PdfTempFileRemovedNoRaise ==
    \A c \in active :
        (pc[c] \in {"returned", "raised"} /\ IsUrl(input_source[c])) =>
            /\ hist[c].created \cap DOMAIN fs = {}
            /\ pc[c] = "returned"
            /\ hist[c].failed # {} => "error" \in DOMAIN result[c][1]

\* C29: with use_grobid and a local PDF path as input, no step of _run
\* deletes or modifies the input file, whether the call succeeds or fails;
\* and whatever the input, a call deletes only files it has downloaded
\* itself
C29_LocalInputUntouched ==
    [][\A c \in active :
          /\ (use_grobid /\ pc[c] # "idle" /\ ~IsUrl(input_source[c])
                /\ input_source[c] \in DOMAIN fs) =>
                 /\ input_source[c] \in DOMAIN fs'
                 /\ fs'[input_source[c]] = fs[input_source[c]]
          /\ hist'[c].deleted \subseteq hist'[c].created]_vars

C29_Witness ==
    \E c \in active :
       /\ use_grobid
       /\ pc[c] = "returned"
       /\ input_source[c] = "paper.pdf"
       /\ hist[c].posts = 1
       /\ "paper.pdf" \in DOMAIN fs
       /\ fs["paper.pdf"] = "complete"
       /\ hist[c].deleted = {}

\* C30: in a call with use_grobid on a URL the steps are ordered. The
\* request to the service is sent only when the file the call downloaded
\* has been written to the end; while the request is in progress, up to
\* and including the step that ends it, that file exists, complete; and a
\* file the call created leaves the file system only in the step that ends
\* _run, the cleanup before the return, after the adapter has returned or
\* raised.
C30_StepsOrdered ==
    [][\A c \in active :
          (use_grobid /\ IsUrl(input_source[c])) =>
             /\ hist'[c].posts > hist[c].posts =>
                   /\ file_path[c] \in hist[c].created
                   /\ file_path[c] \in DOMAIN fs
                   /\ fs[file_path[c]] = "complete"
             /\ pc[c] = "post" =>
                   /\ file_path[c] \in DOMAIN fs /\ fs[file_path[c]] = "complete"
                   /\ file_path[c] \in DOMAIN fs' /\ fs'[file_path[c]] = "complete"
             /\ (\/ hist'[c].deleted # hist[c].deleted
                 \/ \E f \in hist[c].created : f \in DOMAIN fs /\ f \notin DOMAIN fs') =>
                   /\ pc[c] = "finally" /\ pc'[c] = "returned"
                   /\ hist[c].posts = 1
                   /\ hist[c].adapter # <<>> \/ hist[c].failed \cap {"grobid", "file"} # {}]_vars

\* the adapter raised on the file the call had downloaded, and the call
\* returned after removing the file
C30_Witness ==
    \E c \in active :
       /\ use_grobid
       /\ IsUrl(input_source[c])
       /\ pc[c] = "returned"
       /\ hist[c].posts = 1
       /\ "grobid" \in hist[c].failed
       /\ hist[c].created # {}
       /\ hist[c].deleted = hist[c].created
       /\ hist[c].created \cap DOMAIN fs = {}

====
